---- MODULE Spec2Model ----
(***************************************************************************)
(* Model of the UniversalAnalogInput native core: the lock-free shared     *)
(* gamepad state (gamepad/atomic_state.rs), the fixed-rate mapping engine  *)
(* (mapping/engine.rs) with its start/stop life cycle (api/mappings.rs,    *)
(* lib.rs) and the analog source / virtual controller collaborators.       *)
(*                                                                         *)
(* Numbers that are f32/f64 in the source are fixed-point here: a value v  *)
(* of the model stands for v / Den.  Every value the model feeds into a    *)
(* subtraction or a scaling is a multiple of 1/Den, for which the          *)
(* truncating conversions of the source (`as i16`, `as u8`) give the same  *)
(* integer as exact arithmetic.                                            *)
(***************************************************************************)
EXTENDS Integers, Sequences, FiniteSets, TLC

VARIABLES
    atomic_state,        \* ATOMIC_GAMEPAD_STATE: buttons, four thumb axes, two triggers
    writer,              \* threads inside AtomicGamepadState::set_button
    last_call,           \* per writer: the `pressed` argument of its latest call
    initial_buttons,     \* button bitmask before any writer ran
    mapping_active,      \* MappingEngine.mapping_active
    mapping_thread,      \* MappingEngine.mapping_thread: 0 = None, else the thread
    current_profile,     \* MappingEngine.current_profile (ArcSwap): a profile id
    loop,                \* per mapping-loop thread: position and locals
    WOOTING_INIT_STATUS, \* lib.rs: recorded result of WootingSDK::initialize
    VIGEM_INIT_STATUS,   \* lib.rs: recorded result of ViGEmClient::initialize
    WOOTING_SDK,         \* lib.rs: the handle, "some" or "none"
    VIGEM_CLIENT,        \* lib.rs: the handle, "some" or "none"
    lock,                \* owner of each process-wide mutex
    ctl,                 \* control-plane threads: position inside an api call
    pm_current,          \* ProfileManager: id of the current compiled profile
    sink,                \* the virtual controller: the last report it took
    stopped,             \* a stop_mapping has returned and no start has spawned since
    exited,              \* std::process::exit has run
    event_queue,         \* the sync_channel between the hook and the processing thread
    event_manager,       \* EventInputManager: registry, counters, per-key state
    hook_log,            \* every event keyboard_hook_proc built, and whether it was sent
    handled,             \* every event the processing thread received, and what it did
    manager,             \* ProfileManager: the loaded profile and its compiled tables
    hook,                \* EventInputManager::start / stop: flags and threads
    calc                 \* a pure function under evaluation: its input and result

vars == <<atomic_state, writer, last_call, initial_buttons, mapping_active,
          mapping_thread, current_profile, loop, WOOTING_INIT_STATUS,
          VIGEM_INIT_STATUS, WOOTING_SDK, VIGEM_CLIENT, lock, ctl, pm_current,
          sink, stopped, exited, event_queue, event_manager, hook_log, handled,
          manager, hook, calc>>

writerVars == <<writer, last_call, initial_buttons>>
engineVars == <<mapping_active, mapping_thread, current_profile>>
depVars    == <<WOOTING_INIT_STATUS, VIGEM_INIT_STATUS, WOOTING_SDK, VIGEM_CLIENT>>
ctlVars    == <<lock, ctl, pm_current, stopped, exited>>
eventVars  == <<event_queue, event_manager, hook_log, handled>>
auxVars    == <<manager, hook, calc>>
coreVars   == <<atomic_state, writerVars, engineVars, loop, depVars, ctlVars,
                sink, eventVars>>

(***************************************************************************)
(* Bounds of the model.                                                    *)
(***************************************************************************)
\* Number of threads that call set_button concurrently, each on its own bit.
NumWriters == 2
\* Number of thread slots a spawned mapping loop can occupy.
MaxThreads == 2
\* Fixed-point denominator: the model value v stands for the real v / Den.
Den == 20

Writers == 1..NumWriters
Threads == 1..MaxThreads

(***************************************************************************)
(* gamepad/vigem_client.rs: XboxButton, the bit of each button.            *)
(***************************************************************************)
XboxButton ==
    [DPadUp |-> 1, DPadDown |-> 2, DPadLeft |-> 4, DPadRight |-> 8,
     Start |-> 16, Back |-> 32, LeftThumb |-> 64, RightThumb |-> 128,
     LeftShoulder |-> 256, RightShoulder |-> 512,
     A |-> 4096, B |-> 8192, X |-> 16384, Y |-> 32768]

\* The button a writer thread toggles: pairwise distinct bits.
ButtonOrder ==
    <<"A", "B", "X", "Y", "DPadUp", "DPadDown", "DPadLeft", "DPadRight",
      "LeftShoulder", "RightShoulder", "Start", "Back", "LeftThumb", "RightThumb">>

ButtonOf(w) == XboxButton[ButtonOrder[w]]

\* `current & button_mask != 0` for a one-bit mask.
HasBit(mask, bit) == (mask \div bit) % 2 = 1

\* `current | button_mask` on a u16, for a one-bit mask.
BitOr(current, button_mask) ==
    IF HasBit(current, button_mask) THEN current ELSE current + button_mask

\* `current & !button_mask` on a u16, for a one-bit mask.
BitAndNot(current, button_mask) ==
    IF HasBit(current, button_mask) THEN current - button_mask ELSE current

(***************************************************************************)
(* AtomicGamepadState::new                                                 *)
(***************************************************************************)
NewAtomicGamepadState ==
    [buttons |-> 0, thumb_lx |-> 0, thumb_ly |-> 0, thumb_rx |-> 0,
     thumb_ry |-> 0, left_trigger |-> 0, right_trigger |-> 0]

IdleWriter == [pc |-> "idle", button_mask |-> 0, pressed |-> FALSE, current |-> 0]

(***************************************************************************)
(* AtomicGamepadState::set_button, one action per atomic access.           *)
(***************************************************************************)
\* The call: a thread enters set_button(button, pressed).
SetButtonCall(w, button_mask, pressed) ==
    /\ ~exited
    /\ writer[w].pc = "idle"
    /\ writer' = [writer EXCEPT ![w] =
                    [pc |-> "load", button_mask |-> button_mask,
                     pressed |-> pressed, current |-> 0]]
    /\ last_call' = [last_call EXCEPT ![w] = IF pressed THEN "set" ELSE "clear"]
    /\ UNCHANGED <<atomic_state, initial_buttons, engineVars, loop, depVars,
                   ctlVars, sink, eventVars, auxVars>>

\* `let current = self.buttons.load(Relaxed)`.
SetButtonLoad(w) ==
    /\ ~exited
    /\ writer[w].pc = "load"
    /\ writer' = [writer EXCEPT ![w].pc = "cas",
                                ![w].current = atomic_state.buttons]
    /\ UNCHANGED <<atomic_state, last_call, initial_buttons, engineVars, loop,
                   depVars, ctlVars, sink, eventVars, auxVars>>

\* The value the retry loop computes from the loaded bitmask.
NewValue(current, button_mask, pressed) ==
    IF pressed THEN BitOr(current, button_mask) ELSE BitAndNot(current, button_mask)

\* A plain store in place of the compare-exchange: it never fails.
CasBlindStore(actual, current) == TRUE

\* compare_exchange_weak(current, new_value) succeeds only on an unchanged bitmask.
CasMatches(actual, current) == actual = current

\* compare_exchange_weak: success stores and returns; a mismatch, or a spurious
\* failure of the weak form, loops back to the load.
SetButtonCas(w) ==
    /\ ~exited
    /\ writer[w].pc = "cas"
    /\ \/ /\ CasMatches(atomic_state.buttons, writer[w].current)
          /\ atomic_state' =
                [atomic_state EXCEPT !.buttons =
                    NewValue(writer[w].current, writer[w].button_mask,
                             writer[w].pressed)]
          /\ writer' = [writer EXCEPT ![w] = IdleWriter]
       \/ /\ writer' = [writer EXCEPT ![w].pc = "load"]
          /\ UNCHANGED atomic_state
    /\ UNCHANGED <<last_call, initial_buttons, engineVars, loop, depVars,
                   ctlVars, sink, eventVars, auxVars>>

\* AtomicGamepadState::set_buttons: a blind store of the whole bitmask.
set_buttons(state, button_mask) == [state EXCEPT !.buttons = button_mask]

(***************************************************************************)
(* profile/profiles.rs: GamepadControl and CompiledProfile.                *)
(***************************************************************************)
AnalogControls ==
    {"LeftStickUp", "LeftStickDown", "LeftStickLeft", "LeftStickRight",
     "RightStickUp", "RightStickDown", "RightStickLeft", "RightStickRight",
     "LeftTrigger", "RightTrigger"}

\* The physical keys of the model, named as conversions.rs names them.
Keys == {"W", "E", "S"}

\* Raw analog depths a poll can report: 0.3, 0.5 and 0.7.
RawValues == {(3 * Den) \div 10, Den \div 2, (7 * Den) \div 10}

\* CompiledMapping: the target control and the curve (Linear, with dead zones).
Mapping(control, inner, outer) ==
    [gamepad_control |-> control, curve_type |-> "Linear",
     dead_zone_inner |-> inner, dead_zone_outer |-> outer]

\* Two compiled sub-profiles.  "Movement" binds W as the documented scenario does
\* (LeftStickUp, dead zones 0.05 / 0.95), a second key to the same half-axis and
\* S to the opposite one; "Combat" rebinds the same keys to a trigger, a digital
\* button and the right stick.
Profiles ==
    [Movement |->
        [mappings |->
            [k \in {"W", "E", "S"} |->
                CASE k = "W" -> Mapping("LeftStickUp", Den \div 20, (19 * Den) \div 20)
                  [] k = "E" -> Mapping("LeftStickUp", 0, Den)
                  [] k = "S" -> Mapping("LeftStickDown", Den \div 10, (7 * Den) \div 10)]],
     Combat |->
        [mappings |->
            [k \in {"W", "E", "S"} |->
                CASE k = "W" -> Mapping("LeftTrigger", 0, Den)
                  [] k = "E" -> Mapping("ButtonA", 0, Den)
                  [] k = "S" -> Mapping("RightStickLeft", 0, Den)]],
     Aim |->
        [mappings |->
            [k \in {"W", "S"} |->
                CASE k = "W" -> Mapping("RightStickUp", 0, Den)
                  [] k = "S" -> Mapping("RightTrigger", 0, (7 * Den) \div 10)]]]

ProfileIds == DOMAIN Profiles

\* The value of an Option<Arc<CompiledProfile>>: "none" or a profile id.
OptProfileIds == ProfileIds \cup {"none"}

Min(a, b) == IF a < b THEN a ELSE b
Max(a, b) == IF a > b THEN a ELSE b
Clamp(x, lo, hi) == Max(lo, Min(x, hi))

\* Division truncating toward zero, as a float-to-integer `as` cast truncates.
TruncDiv(n, d) == IF n >= 0 THEN n \div d ELSE -((-n) \div d)

\* conversions.rs key_name_to_vk: the virtual-key code of a display name,
\* 0 when unknown.
key_name_to_vk(key_name) ==
    CASE key_name = "E" -> 69
      [] key_name = "S" -> 83
      [] key_name = "W" -> 87
      [] key_name = "F1" -> 112
      [] key_name = "F2" -> 113
      [] OTHER -> 0

\* gamepad_control_to_xbox_button: the XboxButton of a digital control.
ButtonControls ==
    [ButtonA |-> "A", ButtonB |-> "B", ButtonX |-> "X", ButtonY |-> "Y",
     LeftShoulder |-> "LeftShoulder", RightShoulder |-> "RightShoulder",
     DPadUp |-> "DPadUp", DPadDown |-> "DPadDown", DPadLeft |-> "DPadLeft",
     DPadRight |-> "DPadRight"]

\* Some(button) as the button's bit, None as 0.
gamepad_control_to_xbox_button(control) ==
    IF control \in DOMAIN ButtonControls
    THEN XboxButton[ButtonControls[control]]
    ELSE 0

\* update_button_callbacks: the map is cleared, then one callback is inserted
\* for every key of the profile bound to a digital button.  A callback is
\* modelled by the bit it sets or clears.
update_button_callbacks(profile) ==
    LET keys == {k \in DOMAIN profile.mappings :
                    gamepad_control_to_xbox_button(
                        profile.mappings[k].gamepad_control) # 0}
    IN [vk \in {key_name_to_vk(k) : k \in keys} |->
           LET key == CHOOSE k \in keys : key_name_to_vk(k) = vk
           IN gamepad_control_to_xbox_button(profile.mappings[key].gamepad_control)]

(***************************************************************************)
(* curves.rs: UnifiedCurve.  Abscissas are lookup-table indices            *)
(* (x = index / (LUT_SIZE - 1)); ordinates of control points are in units  *)
(* of 1/Den; interpolated values and table entries are exact, in units of  *)
(* 1/(Den * LutUnit).                                                      *)
(***************************************************************************)
LUT_SIZE == 256

\* Control points lie on fifths of the input range, so that a segment is one
\* or two steps long and every interpolated value is a whole number of units.
PointStep == (LUT_SIZE - 1) \div 5

\* 2 * 2 covers the halving of the averaged tangents and the ratio of the
\* lengths of two neighbouring segments; the cube covers t * t * t.
LutUnit == (2 * 2) * (2 * PointStep) * (2 * PointStep) * (2 * PointStep)

\* 1.0 in table units.
LutOne == Den * LutUnit

\* linear_interp with t = n / T: the numerator of y0 + t * delta over T.
linear_interp(n, T, y0, delta) == (y0 * T) + (n * delta)

\* hermite_interp with t = n / T.  M0 and M1 are the tangents scaled by the
\* segment length and by 2 * 2 (dx * m0 * 4 and dx * m1 * 4); the result is the
\* numerator of the interpolated value over 4 * T^3.
hermite_interp(n, T, p0, p1, M0, M1) ==
    LET n2  == n * n
        n3  == n2 * n
        T2  == T * T
        T3  == T2 * T
        h00 == ((2 * n3) - (3 * n2 * T)) + T3
        h10 == (n3 - (2 * n2 * T)) + (n * T2)
        h01 == (3 * n2 * T) - (2 * n3)
        h11 == n3 - (n2 * T)
    IN  (h00 * p0 * 4) + (h10 * M0) + (h01 * p1 * 4) + (h11 * M1)

\* interpolate_at_point: the value of the curve through the sorted control
\* points at abscissa x.  Control points have distinct abscissas here, so the
\* .max(1e-10) guards of the neighbouring segment lengths leave them as they are.
interpolate_at_point(points, x, use_smooth) ==
    LET len  == Len(points)
        segs == {i \in 1..(len - 1) :
                    x >= points[i][1] /\ x <= points[i + 1][1]}
    IN  IF len = 0
        THEN (x * Den * (LutUnit \div PointStep)) \div ((LUT_SIZE - 1) \div PointStep)
        ELSE IF len = 1
        THEN points[1][2] * LutUnit
        ELSE IF segs # {}
        THEN LET i  == CHOOSE s \in segs : \A r \in segs : s <= r
                 p1 == points[i]
                 p2 == points[i + 1]
                 dx == p2[1] - p1[1]
                 n  == x - p1[1]
                 dy == p2[2] - p1[2]
             IN  IF dx = 0
                 THEN ((p1[2] + p2[2]) * LutUnit) \div 2
                 ELSE IF use_smooth
                 THEN LET M1 == IF i = 1
                                THEN 4 * dy
                                ELSE LET p0  == points[i - 1]
                                         dx0 == p1[1] - p0[1]
                                     IN  (2 * ((dy * dx0) + ((p1[2] - p0[2]) * dx)))
                                             \div dx0
                          M2 == IF i = len - 1
                                THEN 4 * dy
                                ELSE LET p3  == points[i + 2]
                                         dx2 == p3[1] - p2[1]
                                     IN  (2 * (((p3[2] - p2[2]) * dx) + (dy * dx2)))
                                             \div dx2
                          y  == hermite_interp(n, dx, p1[2], p2[2], M1, M2)
                                    * (LutUnit \div (4 * dx * dx * dx))
                      IN  Clamp(y, 0, LutOne)
                 ELSE linear_interp(n, dx, p1[2], dy) * (LutUnit \div dx)
        ELSE IF x <= points[1][1]
        THEN points[1][2] * LutUnit
        ELSE points[len][2] * LutUnit

\* sort_by on the abscissa: a stable sort.
InsertSorted(sorted, p) ==
    LET before == SelectSeq(sorted, LAMBDA q : q[1] <= p[1])
        after  == SelectSeq(sorted, LAMBDA q : q[1] > p[1])
    IN  before \o <<p>> \o after

RECURSIVE SortPoints(_)
SortPoints(points) ==
    IF points = <<>>
    THEN <<>>
    ELSE InsertSorted(SortPoints(SubSeq(points, 1, Len(points) - 1)),
                      points[Len(points)])

\* UnifiedCurve::new: the control points are sorted; a Custom curve with at
\* least one control point gets its lookup table (index 0..LUT_SIZE-1), any
\* other curve has none (the empty sequence).
UnifiedCurve(curve_type, use_smooth_interpolation, custom_points, dead_zone_inner, dead_zone_outer) ==
    LET sorted == SortPoints(custom_points)
    IN  [curve_type |-> curve_type,
         use_smooth_interpolation |-> use_smooth_interpolation,
         custom_points |-> sorted,
         dead_zone_inner |-> dead_zone_inner,
         dead_zone_outer |-> dead_zone_outer,
         lut |-> IF curve_type = "Custom" /\ sorted # <<>>
                 THEN [i \in 0..(LUT_SIZE - 1) |->
                          interpolate_at_point(sorted, i, use_smooth_interpolation)]
                 ELSE <<>>]

\* lut_lookup: x in units of 1/Den; linear interpolation between two entries,
\* returned in the fixed point of the analog values (units of 1/Den).
lut_lookup(x, lut) ==
    LET xc      == Clamp(x, 0, Den)
        index   == (xc * (LUT_SIZE - 1)) \div Den
        fract   == (xc * (LUT_SIZE - 1)) % Den
    IN  IF index >= LUT_SIZE - 1
        THEN lut[LUT_SIZE - 1] \div LutUnit
        ELSE ((lut[index] * Den) + (fract * (lut[index + 1] - lut[index])))
                 \div (Den * LutUnit)

\* apply_curve: Linear is the identity, Custom reads the lookup table when
\* there is one.
apply_curve(m, normalized_input) ==
    IF m.curve_type = "Custom" /\ DOMAIN m.lut # {}
    THEN lut_lookup(normalized_input, m.lut)
    ELSE normalized_input

\* process_input without the inner dead zone's early return.
process_input_no_inner(m, raw_value) ==
    LET clamped == Min(raw_value, m.dead_zone_outer)
        normalized ==
            IF m.dead_zone_outer > m.dead_zone_inner
            THEN ((clamped - m.dead_zone_inner) * Den)
                     \div (m.dead_zone_outer - m.dead_zone_inner)
            ELSE clamped
    IN  apply_curve(m, normalized)

\* process_input without the clamp to the outer dead zone.
process_input_unclamped(m, raw_value) ==
    IF raw_value < m.dead_zone_inner
    THEN 0
    ELSE LET normalized ==
                 IF m.dead_zone_outer > m.dead_zone_inner
                 THEN ((raw_value - m.dead_zone_inner) * Den)
                          \div (m.dead_zone_outer - m.dead_zone_inner)
                 ELSE raw_value
         IN  apply_curve(m, normalized)

process_input(m, raw_value) ==
    IF raw_value < m.dead_zone_inner
    THEN 0
    ELSE LET clamped == Min(raw_value, m.dead_zone_outer)
             normalized ==
                 IF m.dead_zone_outer > m.dead_zone_inner
                 THEN ((clamped - m.dead_zone_inner) * Den)
                          \div (m.dead_zone_outer - m.dead_zone_inner)
                 ELSE clamped
         IN  apply_curve(m, normalized)

(***************************************************************************)
(* AtomicGamepadState::set_sticks / set_triggers / to_vigem_gamepad.       *)
(***************************************************************************)
\* Scaling by 32768 in place of 32767.
StickToI16Scale32768(x) ==
    Clamp(TruncDiv(Clamp(x, -Den, Den) * 32768, Den), -32768, 32767)

\* `(x.clamp(-1.0, 1.0) * 32767.0) as i16`
StickToI16(x) == Clamp(TruncDiv(Clamp(x, -Den, Den) * 32767, Den), -32768, 32767)

\* `(x.clamp(0.0, 1.0) * 255.0) as u8`
TriggerToU8(x) == Clamp(TruncDiv(Clamp(x, 0, Den) * 255, Den), 0, 255)

set_sticks(state, left_x, left_y, right_x, right_y) ==
    [state EXCEPT !.thumb_lx = StickToI16(left_x),
                  !.thumb_ly = StickToI16(left_y),
                  !.thumb_rx = StickToI16(right_x),
                  !.thumb_ry = StickToI16(right_y)]

set_triggers(state, left, right) ==
    [state EXCEPT !.left_trigger = TriggerToU8(left),
                  !.right_trigger = TriggerToU8(right)]

\* The report read back from the atomic fields.
to_vigem_gamepad(state) == state

(***************************************************************************)
(* mapping/engine.rs: the per-key body of the loop.                        *)
(***************************************************************************)
ZeroAcc == [c \in AnalogControls |-> 0]

\* Summing the contributions in place of taking their maximum.
AccumulateSum(accumulator, processed_value) == accumulator + processed_value

\* `processed_value.max(accumulator)`
Accumulate(accumulator, processed_value) == Max(processed_value, accumulator)

\* One iteration of `for input in &input_buffer` against a profile: a key that
\* is absent, or bound to a digital button, leaves the accumulators alone.
ProcessKey(profile, acc, input) ==
    IF input.key_code \in DOMAIN profile.mappings
    THEN LET compiled_mapping == profile.mappings[input.key_code]
             control == compiled_mapping.gamepad_control
         IN  IF control \in AnalogControls
             THEN [acc EXCEPT ![control] =
                      Accumulate(acc[control],
                                 process_input(compiled_mapping, input.analog_value))]
             ELSE acc
    ELSE acc

\* The signed axis: `(positive - negative).clamp(-1.0, 1.0)`.
StickAxis(positive, negative) == Clamp(positive - negative, -Den, Den)

\* The shared state after the tick's set_sticks and set_triggers.
WriteAnalog(state, acc) ==
    set_triggers(
        set_sticks(state,
                   StickAxis(acc["LeftStickRight"], acc["LeftStickLeft"]),
                   StickAxis(acc["LeftStickUp"], acc["LeftStickDown"]),
                   StickAxis(acc["RightStickRight"], acc["RightStickLeft"]),
                   StickAxis(acc["RightStickUp"], acc["RightStickDown"])),
        acc["LeftTrigger"], acc["RightTrigger"])

(***************************************************************************)
(* Mapping-loop threads.  pc: "dead" (no thread in the slot), "check" (the *)
(* `while mapping_active.load()` test), "poll", "load", "keys", "write",   *)
(* "readback", "send", "frame_end".  hits and misses count the fetch_add    *)
(* calls the current tick has made on mapping_hits and mapping_misses.     *)
(***************************************************************************)
DeadLoop ==
    [pc |-> "dead", input_buffer |-> <<>>, profile_guard |-> "none", idx |-> 0,
     acc |-> ZeroAcc, vigem_gamepad |-> <<>>, input_success |-> FALSE,
     sent |-> 0, hits |-> 0, misses |-> 0]

\* A thread just spawned: `Vec::with_capacity(256)`, about to test the flag.
SpawnedLoop == [DeadLoop EXCEPT !.pc = "check"]

Alive == {t \in Threads : loop[t].pc # "dead"}

AnalogInput(k, v) == [key_code |-> k, analog_value |-> v]

\* What one read_full_buffer can return: each key at most once, in any order.
BuffersOver(keys, values) ==
    LET inputs == {AnalogInput(k, v) : k \in keys, v \in values}
    IN  {b \in UNION {[1..n -> inputs] : n \in 0..Cardinality(keys)} :
            \A i, j \in DOMAIN b : i # j => b[i].key_code # b[j].key_code}


\* Every mutex in `held` is free.
LocksFree(held) == \A l \in held : lock[l] = "free"

\* A loop that locks PROFILE_MANAGER to read the profile.
LoopLocksWithManager(pc) ==
    CASE pc = "poll" -> {"WOOTING_SDK"}
      [] pc = "load" -> {"PROFILE_MANAGER"}
      [] pc = "send" -> {"VIGEM_CLIENT"}
      [] OTHER -> {}

\* The mutexes a step of mapping_loop_optimized locks: WOOTING_SDK around the
\* poll, VIGEM_CLIENT around the send, none anywhere else.
LoopLocks(pc) ==
    CASE pc = "poll" -> {"WOOTING_SDK"}
      [] pc = "send" -> {"VIGEM_CLIENT"}
      [] OTHER -> {}

\* `while mapping_active.load(Relaxed)`: enter a tick, or leave the loop.
LoopCheck(t) ==
    /\ ~exited
    /\ loop[t].pc = "check"
    /\ LocksFree(LoopLocks(loop[t].pc))
    /\ IF mapping_active
       THEN loop' = [loop EXCEPT ![t].pc = "poll"]
       ELSE loop' = [loop EXCEPT ![t] = DeadLoop]
    /\ UNCHANGED <<atomic_state, writerVars, engineVars, depVars, ctlVars, sink, eventVars,
                   auxVars>>

\* A failed poll that ends the loop thread.
AfterPollFatal(input_success, buffer) ==
    IF ~input_success THEN "dead"
    ELSE IF buffer # <<>> THEN "load" ELSE "frame_end"

\* After the poll: `if input_success && !input_buffer.is_empty()`.
AfterPoll(input_success, buffer) ==
    IF input_success /\ buffer # <<>> THEN "load" ELSE "frame_end"

\* The poll under the WOOTING_SDK mutex: no handle clears the buffer;
\* WootingSDK::fill_analog_inputs fails before clearing when the SDK is not
\* initialised, fails after clearing on a read error, or fills the buffer.
LoopPoll(t, buffers) ==
    /\ ~exited
    /\ loop[t].pc = "poll"
    /\ LocksFree(LoopLocks(loop[t].pc))
    /\ \/ /\ WOOTING_SDK = "none"
          /\ loop' = [loop EXCEPT ![t].input_buffer = <<>>,
                                  ![t].input_success = FALSE,
                                  ![t].pc = AfterPoll(FALSE, <<>>)]
       \/ /\ WOOTING_SDK = "some"
          /\ loop' = [loop EXCEPT ![t].input_success = FALSE,
                                  ![t].pc = AfterPoll(FALSE, loop[t].input_buffer)]
       \/ /\ WOOTING_SDK = "some"
          /\ loop' = [loop EXCEPT ![t].input_buffer = <<>>,
                                  ![t].input_success = FALSE,
                                  ![t].pc = AfterPoll(FALSE, <<>>)]
       \/ /\ WOOTING_SDK = "some"
          /\ \E b \in buffers :
                loop' = [loop EXCEPT ![t].input_buffer = b,
                                     ![t].input_success = TRUE,
                                     ![t].pc = AfterPoll(TRUE, b)]
    /\ UNCHANGED <<atomic_state, writerVars, engineVars, depVars, ctlVars, sink, eventVars,
                   auxVars>>

\* `let profile_guard = current_profile.load()` and `if let Some(profile)`.
LoopLoad(t) ==
    /\ ~exited
    /\ loop[t].pc = "load"
    /\ LocksFree(LoopLocks(loop[t].pc))
    /\ IF current_profile = "none"
       THEN loop' = [loop EXCEPT ![t].pc = "frame_end"]
       ELSE loop' = [loop EXCEPT ![t].profile_guard = current_profile,
                                 ![t].idx = 1,
                                 ![t].acc = ZeroAcc,
                                 ![t].pc = "keys"]
    /\ UNCHANGED <<atomic_state, writerVars, engineVars, depVars, ctlVars, sink, eventVars,
                   auxVars>>

\* Counting every key found in the profile as a hit.
KeyOutcomePresentIsHit(profile, input) ==
    IF input.key_code \in DOMAIN profile.mappings THEN "hit" ELSE "miss"

\* Which counter one key of the buffer increments: mapping_hits for a key
\* bound to an analog control, mapping_misses for a key absent from the
\* profile, none for a key bound to a digital button.
KeyOutcome(profile, input) ==
    IF input.key_code \in DOMAIN profile.mappings
    THEN IF profile.mappings[input.key_code].gamepad_control \in AnalogControls
         THEN "hit"
         ELSE "skip"
    ELSE "miss"

\* Re-reading the engine's current profile for each key.
LookupCurrent(t) ==
    IF current_profile = "none" THEN loop[t].profile_guard ELSE current_profile

\* The profile a key is looked up in: the snapshot loaded for this tick.
LookupProfile(t) == loop[t].profile_guard

\* One iteration of the `for input in &input_buffer` loop.
LoopKey(t) ==
    /\ ~exited
    /\ loop[t].pc = "keys"
    /\ LocksFree(LoopLocks(loop[t].pc))
    /\ loop' = [loop EXCEPT
                  ![t].acc = ProcessKey(Profiles[LookupProfile(t)], loop[t].acc,
                                        loop[t].input_buffer[loop[t].idx]),
                  ![t].hits =
                      IF KeyOutcome(Profiles[LookupProfile(t)],
                                    loop[t].input_buffer[loop[t].idx]) = "hit"
                      THEN loop[t].hits + 1 ELSE loop[t].hits,
                  ![t].misses =
                      IF KeyOutcome(Profiles[LookupProfile(t)],
                                    loop[t].input_buffer[loop[t].idx]) = "miss"
                      THEN loop[t].misses + 1 ELSE loop[t].misses,
                  ![t].idx = loop[t].idx + 1,
                  ![t].pc = IF loop[t].idx = Len(loop[t].input_buffer)
                            THEN "write" ELSE "keys"]
    /\ UNCHANGED <<atomic_state, writerVars, engineVars, depVars, ctlVars, sink, eventVars,
                   auxVars>>

\* A tick that rebuilds the whole report and so zeroes the buttons.
TickWriteClearsButtons(state, acc) == set_buttons(WriteAnalog(state, acc), 0)

\* The state the tick's analog write leaves in ATOMIC_GAMEPAD_STATE.
TickWrite(state, acc) == WriteAnalog(state, acc)

\* ATOMIC_GAMEPAD_STATE.set_sticks(..) and set_triggers(..).
LoopWrite(t) ==
    /\ ~exited
    /\ loop[t].pc = "write"
    /\ LocksFree(LoopLocks(loop[t].pc))
    /\ atomic_state' = TickWrite(atomic_state, loop[t].acc)
    /\ loop' = [loop EXCEPT ![t].pc = "readback"]
    /\ UNCHANGED <<writerVars, engineVars, depVars, ctlVars, sink, eventVars,
                   auxVars>>

\* `let vigem_gamepad = ATOMIC_GAMEPAD_STATE.to_vigem_gamepad()`.
LoopReadBack(t) ==
    /\ ~exited
    /\ loop[t].pc = "readback"
    /\ LocksFree(LoopLocks(loop[t].pc))
    /\ loop' = [loop EXCEPT ![t].vigem_gamepad = <<to_vigem_gamepad(atomic_state)>>,
                            ![t].pc = "send"]
    /\ UNCHANGED <<atomic_state, writerVars, engineVars, depVars, ctlVars, sink, eventVars,
                   auxVars>>

\* ViGEmClient::update_from_vigem_gamepad: the controller takes the report, or
\* the update fails and the error is only logged.
SinkUpdate(s, report, ok) == [last |-> IF ok THEN <<report>> ELSE s.last]

\* The transmission under the VIGEM_CLIENT mutex.
LoopSend(t) ==
    /\ ~exited
    /\ loop[t].pc = "send"
    /\ LocksFree(LoopLocks(loop[t].pc))
    /\ \/ /\ VIGEM_CLIENT = "some"
          /\ \E ok \in BOOLEAN :
                sink' = SinkUpdate(sink, loop[t].vigem_gamepad[1], ok)
          /\ loop' = [loop EXCEPT ![t].pc = "frame_end",
                                  ![t].sent = loop[t].sent + 1]
       \/ /\ VIGEM_CLIENT = "none"
          /\ loop' = [loop EXCEPT ![t].pc = "frame_end"]
          /\ UNCHANGED sink
    /\ UNCHANGED <<atomic_state, writerVars, engineVars, depVars, ctlVars,
                   eventVars, auxVars>>

\* End of the iteration: the per-tick locals go out of scope, the thread sleeps
\* and returns to the flag test.  The input buffer is reused.
LoopFrameEnd(t) ==
    /\ ~exited
    /\ loop[t].pc = "frame_end"
    /\ LocksFree(LoopLocks(loop[t].pc))
    /\ loop' = [loop EXCEPT ![t] =
                  [DeadLoop EXCEPT !.pc = "check",
                                   !.input_buffer = loop[t].input_buffer]]
    /\ UNCHANGED <<atomic_state, writerVars, engineVars, depVars, ctlVars, sink, eventVars,
                   auxVars>>

\* Any step of a mapping-loop thread.
LoopStep(t, buffers) ==
    \/ LoopCheck(t)
    \/ LoopPoll(t, buffers)
    \/ LoopLoad(t)
    \/ LoopKey(t)
    \/ LoopWrite(t)
    \/ LoopReadBack(t)
    \/ LoopSend(t)
    \/ LoopFrameEnd(t)

(***************************************************************************)
(* Control plane.  Two threads call into the api: the tray UI thread       *)
(* (bin/tray_modules/tray_ui.rs) and the IPC handler thread                *)
(* (bin/tray_modules/handler.rs).  The process-wide mutexes are modelled   *)
(* by their owner; a step that needs a held mutex is not enabled.          *)
(***************************************************************************)
Ctl == {"tray", "ipc"}

Locks == {"WOOTING_SDK", "VIGEM_CLIENT", "MAPPING_ENGINE", "PROFILE_MANAGER",
          "EVENT_INPUT_MANAGER"}

IdleCtl == [pc |-> "idle", op |-> "none", result |-> "none", join |-> 0,
            was_running |-> FALSE]

\* `status.as_ref().map(|r| r.is_ok()).unwrap_or(false)`
StatusOk(status) == status = "ok"

Acquire(l, c) == [lock EXCEPT ![l] = c]

ReleaseAll(held) == [l \in Locks |-> IF l \in held THEN "free" ELSE lock[l]]

\* The call returns: the thread is idle again and remembers the result.
Return(c, result) ==
    [ctl EXCEPT ![c].pc = "idle", ![c].result = result, ![c].join = 0]

\* A stop_mapping that finds no handle and so joins nothing.
LoseHandle(handle) == 0

\* `mapping_thread_guard.take()`: the handle stop_mapping goes on to join.
TakeHandle(handle) == handle

\* A join that returns without waiting for the thread.
JoinSkipped(t) == TRUE

\* `handle.join()` returns once the thread has left mapping_loop_optimized.
JoinDone(t) == loop[t].pc = "dead"

\* api::start_mapping, first block: the status checks, then WOOTING_SDK.lock().
ApiStartBegin(c) ==
    /\ ~exited
    /\ ctl[c].pc = "idle"
    /\ \/ /\ ~(StatusOk(WOOTING_INIT_STATUS) /\ StatusOk(VIGEM_INIT_STATUS))
          /\ ctl' = [ctl EXCEPT ![c] =
                        [IdleCtl EXCEPT !.op = "start", !.result = "err",
                                        !.was_running = mapping_active]]
          /\ UNCHANGED lock
       \/ /\ StatusOk(WOOTING_INIT_STATUS) /\ StatusOk(VIGEM_INIT_STATUS)
          /\ lock["WOOTING_SDK"] = "free"
          /\ lock' = Acquire("WOOTING_SDK", c)
          /\ ctl' = [ctl EXCEPT ![c] =
                        [IdleCtl EXCEPT !.pc = "as_vigem", !.op = "start",
                                        !.was_running = mapping_active]]
    /\ UNCHANGED <<atomic_state, writerVars, engineVars, loop, depVars,
                   pm_current, stopped, exited, sink, eventVars, auxVars>>

\* api::start_mapping: VIGEM_CLIENT.lock() while holding WOOTING_SDK.
ApiStartLockVigem(c) ==
    /\ ~exited
    /\ ctl[c].pc = "as_vigem"
    /\ lock["VIGEM_CLIENT"] = "free"
    /\ lock' = Acquire("VIGEM_CLIENT", c)
    /\ ctl' = [ctl EXCEPT ![c].pc = "as_engine"]
    /\ UNCHANGED <<atomic_state, writerVars, engineVars, loop, depVars,
                   pm_current, stopped, exited, sink, eventVars, auxVars>>

\* api::start_mapping: MAPPING_ENGINE.lock() while holding both handles, the
\* `is_none()` test, and the end of the block, which drops the three guards.
ApiStartLockEngine(c) ==
    /\ ~exited
    /\ ctl[c].pc = "as_engine"
    /\ lock["MAPPING_ENGINE"] = "free"
    /\ lock' = ReleaseAll({"WOOTING_SDK", "VIGEM_CLIENT", "MAPPING_ENGINE"})
    /\ IF WOOTING_SDK = "none" \/ VIGEM_CLIENT = "none"
       THEN ctl' = Return(c, "err")
       ELSE ctl' = [ctl EXCEPT ![c].pc = "as_engine2"]
    /\ UNCHANGED <<atomic_state, writerVars, engineVars, loop, depVars,
                   pm_current, stopped, exited, sink, eventVars, auxVars>>

\* A stop_mapping that flips the flag instead of clearing it.
StopSignalToggles == [active |-> ~mapping_active, handle |-> TakeHandle(mapping_thread)]

\* MappingEngine::stop_mapping up to the join: the flag store and the take of
\* the thread handle.  Yields the engine fields and the handle to join.
StopSignal == [active |-> FALSE, handle |-> TakeHandle(mapping_thread)]

\* api::start_mapping, second block: MAPPING_ENGINE.lock(), then
\* MappingEngine::start_mapping, which begins with self.stop_mapping().
ApiStartLockEngine2(c) ==
    /\ ~exited
    /\ ctl[c].pc = "as_engine2"
    /\ lock["MAPPING_ENGINE"] = "free"
    /\ lock' = Acquire("MAPPING_ENGINE", c)
    /\ mapping_active' = StopSignal.active
    /\ mapping_thread' = 0
    /\ ctl' = [ctl EXCEPT ![c].pc = "es_join", ![c].join = StopSignal.handle]
    /\ UNCHANGED <<atomic_state, writerVars, current_profile, loop, depVars,
                   pm_current, stopped, exited, sink, eventVars, auxVars>>

\* MappingEngine::start_mapping: its stop_mapping returns (after the join when
\* there was a handle).
EngineStartJoin(c) ==
    /\ ~exited
    /\ ctl[c].pc = "es_join"
    /\ ctl[c].join # 0 => JoinDone(ctl[c].join)
    /\ ctl' = [ctl EXCEPT ![c].pc = "es_check", ![c].join = 0]
    /\ stopped' = TRUE
    /\ UNCHANGED <<atomic_state, writerVars, engineVars, loop, depVars, lock,
                   pm_current, exited, sink, eventVars, auxVars>>

\* MappingEngine::start_mapping: the status checks, then wooting_sdk.lock().
EngineStartCheck(c) ==
    /\ ~exited
    /\ ctl[c].pc = "es_check"
    /\ \/ /\ ~(StatusOk(WOOTING_INIT_STATUS) /\ StatusOk(VIGEM_INIT_STATUS))
          /\ ctl' = Return(c, "err")
          /\ lock' = ReleaseAll({"MAPPING_ENGINE"})
       \/ /\ StatusOk(WOOTING_INIT_STATUS) /\ StatusOk(VIGEM_INIT_STATUS)
          /\ lock["WOOTING_SDK"] = "free"
          /\ lock' = Acquire("WOOTING_SDK", c)
          /\ ctl' = [ctl EXCEPT ![c].pc = "es_vigem"]
    /\ UNCHANGED <<atomic_state, writerVars, engineVars, loop, depVars,
                   pm_current, stopped, exited, sink, eventVars, auxVars>>

\* MappingEngine::start_mapping: vigem_client.lock(), the `is_none()` test and
\* the end of the block.
EngineStartHandles(c) ==
    /\ ~exited
    /\ ctl[c].pc = "es_vigem"
    /\ lock["VIGEM_CLIENT"] = "free"
    /\ IF WOOTING_SDK = "none" \/ VIGEM_CLIENT = "none"
       THEN /\ ctl' = Return(c, "err")
            /\ lock' = ReleaseAll({"WOOTING_SDK", "VIGEM_CLIENT", "MAPPING_ENGINE"})
       ELSE /\ ctl' = [ctl EXCEPT ![c].pc = "es_profile"]
            /\ lock' = ReleaseAll({"WOOTING_SDK", "VIGEM_CLIENT"})
    /\ UNCHANGED <<atomic_state, writerVars, engineVars, loop, depVars,
                   pm_current, stopped, exited, sink, eventVars, auxVars>>

\* MappingEngine::update_cached_profile / clear_cached_profile: one store.
StoreProfile(id) == id

\* MappingEngine::start_mapping: under PROFILE_MANAGER, cache the manager's
\* current compiled profile (or clear the cache).
EngineStartProfile(c) ==
    /\ ~exited
    /\ ctl[c].pc = "es_profile"
    /\ lock["PROFILE_MANAGER"] = "free"
    /\ current_profile' = StoreProfile(pm_current)
    /\ ctl' = [ctl EXCEPT ![c].pc = "es_spawn"]
    /\ UNCHANGED <<atomic_state, writerVars, mapping_active, mapping_thread, loop,
                   depVars, lock, pm_current, stopped, exited, sink, eventVars,
                   auxVars>>

\* The slot of the thread thread::spawn creates.
FreeSlot == CHOOSE t \in Threads : loop[t].pc = "dead" /\
                                   \A u \in Threads : loop[u].pc = "dead" => t <= u

\* MappingEngine::start_mapping: the flag store, thread::spawn, the handle, and
\* the return through api::start_mapping, which drops the engine guard.
EngineStartSpawn(c) ==
    /\ ~exited
    /\ ctl[c].pc = "es_spawn"
    /\ \E t \in Threads : loop[t].pc = "dead"
    /\ mapping_active' = TRUE
    /\ loop' = [loop EXCEPT ![FreeSlot] = SpawnedLoop]
    /\ mapping_thread' = FreeSlot
    /\ stopped' = FALSE
    /\ lock' = ReleaseAll({"MAPPING_ENGINE"})
    /\ ctl' = Return(c, "ok")
    /\ UNCHANGED <<atomic_state, writerVars, current_profile, depVars,
                   pm_current, exited, sink, eventVars, auxVars>>

\* api::stop_mapping: MAPPING_ENGINE.lock(), then MappingEngine::stop_mapping
\* up to the join.
ApiStopBegin(c) ==
    /\ ~exited
    /\ ctl[c].pc = "idle"
    /\ lock["MAPPING_ENGINE"] = "free"
    /\ lock' = Acquire("MAPPING_ENGINE", c)
    /\ mapping_active' = StopSignal.active
    /\ mapping_thread' = 0
    /\ ctl' = [ctl EXCEPT ![c] =
                  [IdleCtl EXCEPT !.pc = "st_join", !.op = "stop",
                                  !.join = StopSignal.handle,
                                  !.was_running = mapping_active]]
    /\ UNCHANGED <<atomic_state, writerVars, current_profile, loop, depVars,
                   pm_current, stopped, exited, sink, eventVars, auxVars>>

\* api::stop_mapping: the join is over, stop_mapping returns and the engine
\* guard is dropped.
ApiStopJoin(c) ==
    /\ ~exited
    /\ ctl[c].pc = "st_join"
    /\ ctl[c].join # 0 => JoinDone(ctl[c].join)
    /\ lock' = ReleaseAll({"MAPPING_ENGINE"})
    /\ ctl' = Return(c, "ok")
    /\ stopped' = TRUE
    /\ UNCHANGED <<atomic_state, writerVars, engineVars, loop, depVars,
                   pm_current, exited, sink, eventVars, auxVars>>

\* lib.rs cleanup_internal, run by the tray thread when the tray UI closes:
\* stop the engine under MAPPING_ENGINE.
CleanupBegin(c) ==
    /\ ~exited
    /\ c = "tray"
    /\ ctl[c].pc = "idle"
    /\ lock["MAPPING_ENGINE"] = "free"
    /\ lock' = Acquire("MAPPING_ENGINE", c)
    /\ mapping_active' = StopSignal.active
    /\ mapping_thread' = 0
    /\ ctl' = [ctl EXCEPT ![c] =
                  [IdleCtl EXCEPT !.pc = "cl_join", !.op = "cleanup",
                                  !.join = StopSignal.handle,
                                  !.was_running = mapping_active]]
    /\ UNCHANGED <<atomic_state, writerVars, current_profile, loop, depVars,
                   pm_current, stopped, exited, sink, eventVars, auxVars>>

\* cleanup_internal: stop_mapping returns, the engine guard is dropped.
CleanupJoin(c) ==
    /\ ~exited
    /\ ctl[c].pc = "cl_join"
    /\ ctl[c].join # 0 => JoinDone(ctl[c].join)
    /\ lock' = ReleaseAll({"MAPPING_ENGINE"})
    /\ ctl' = [ctl EXCEPT ![c].pc = "cl_wooting", ![c].join = 0]
    /\ stopped' = TRUE
    /\ UNCHANGED <<atomic_state, writerVars, engineVars, loop, depVars,
                   pm_current, exited, sink, eventVars, auxVars>>

\* cleanup_internal: `wooting_guard.take()` under WOOTING_SDK.
CleanupWooting(c) ==
    /\ ~exited
    /\ ctl[c].pc = "cl_wooting"
    /\ lock["WOOTING_SDK"] = "free"
    /\ WOOTING_SDK' = "none"
    /\ ctl' = [ctl EXCEPT ![c].pc = "cl_vigem"]
    /\ UNCHANGED <<atomic_state, writerVars, engineVars, loop,
                   WOOTING_INIT_STATUS, VIGEM_INIT_STATUS, VIGEM_CLIENT, lock,
                   pm_current, stopped, exited, sink, eventVars, auxVars>>

\* cleanup_internal: `vigem_guard.take()` under VIGEM_CLIENT.
CleanupVigem(c) ==
    /\ ~exited
    /\ ctl[c].pc = "cl_vigem"
    /\ lock["VIGEM_CLIENT"] = "free"
    /\ VIGEM_CLIENT' = "none"
    /\ ctl' = [ctl EXCEPT ![c].pc = "cl_exit"]
    /\ UNCHANGED <<atomic_state, writerVars, engineVars, loop,
                   WOOTING_INIT_STATUS, VIGEM_INIT_STATUS, WOOTING_SDK, lock,
                   pm_current, stopped, exited, sink, eventVars, auxVars>>

\* bin/tray.rs main: std::process::exit(0) after cleanup_library().
ProcessExit(c) ==
    /\ ~exited
    /\ ctl[c].pc = "cl_exit"
    /\ exited' = TRUE
    /\ UNCHANGED <<atomic_state, writerVars, engineVars, loop, depVars, lock, ctl,
                   pm_current, stopped, sink, eventVars, auxVars>>

(***************************************************************************)
(* api::switch_profile followed by update_systems_after_profile_switch     *)
(* (profile/sync.rs): the manager's current compiled profile changes, the  *)
(* button bitmask is reset, and the engine's cached profile is replaced.   *)
(***************************************************************************)
\* api::switch_profile: ProfileManager::switch_profile under PROFILE_MANAGER.
\* The manager ends with compiled profile p ("none" after a deletion that
\* leaves no profile loaded).
ApiSwitchProfile(c, p) ==
    /\ ~exited
    /\ ctl[c].pc = "idle"
    /\ lock["PROFILE_MANAGER"] = "free"
    /\ pm_current' = p
    /\ ctl' = [ctl EXCEPT ![c] = [IdleCtl EXCEPT !.pc = "up_reset", !.op = "switch"]]
    /\ UNCHANGED <<atomic_state, writerVars, engineVars, loop, depVars, lock,
                   stopped, exited, sink, eventVars, auxVars>>

\* update_systems_after_profile_switch: ATOMIC_GAMEPAD_STATE.set_buttons(0).
UpdateReset(c) ==
    /\ ~exited
    /\ ctl[c].pc = "up_reset"
    /\ atomic_state' = set_buttons(atomic_state, 0)
    /\ ctl' = [ctl EXCEPT ![c].pc = "up_pm"]
    /\ UNCHANGED <<writerVars, engineVars, loop, depVars, lock, pm_current,
                   stopped, exited, sink, eventVars, auxVars>>

\* update_systems_after_profile_switch: PROFILE_MANAGER.lock() and
\* `if let Some(current_profile) = manager.get_current_profile()`.
UpdateLockManager(c) ==
    /\ ~exited
    /\ ctl[c].pc = "up_pm"
    /\ lock["PROFILE_MANAGER"] = "free"
    /\ lock' = Acquire("PROFILE_MANAGER", c)
    /\ ctl' = [ctl EXCEPT ![c].pc = IF pm_current = "none" THEN "up_engine"
                                    ELSE "up_events"]
    /\ UNCHANGED <<atomic_state, writerVars, engineVars, loop, depVars,
                   pm_current, stopped, exited, sink, eventVars, auxVars>>

\* update_systems_after_profile_switch with a current profile:
\* EVENT_INPUT_MANAGER.lock() while holding PROFILE_MANAGER, then
\* update_button_callbacks; the guard lives to the end of the block.
UpdateCallbacks(c) ==
    /\ ~exited
    /\ ctl[c].pc = "up_events"
    /\ lock["EVENT_INPUT_MANAGER"] = "free"
    /\ lock' = Acquire("EVENT_INPUT_MANAGER", c)
    /\ event_manager' =
          [event_manager EXCEPT
             !.button_callbacks = update_button_callbacks(Profiles[pm_current])]
    /\ ctl' = [ctl EXCEPT ![c].pc = "up_engine"]
    /\ UNCHANGED <<atomic_state, writerVars, engineVars, loop, depVars,
                   pm_current, stopped, exited, sink, event_queue, hook_log,
                   handled, auxVars>>

\* update_systems_after_profile_switch: MAPPING_ENGINE.lock() while holding
\* the earlier guards, update_cached_profile or clear_cached_profile, and the
\* return, which drops the guards.
UpdateStore(c) ==
    /\ ~exited
    /\ ctl[c].pc = "up_engine"
    /\ lock["MAPPING_ENGINE"] = "free"
    /\ current_profile' = StoreProfile(pm_current)
    /\ lock' = ReleaseAll({l \in {"PROFILE_MANAGER", "EVENT_INPUT_MANAGER"} :
                              lock[l] = c})
    /\ ctl' = Return(c, "ok")
    /\ UNCHANGED <<atomic_state, writerVars, mapping_active, mapping_thread, loop,
                   depVars, pm_current, stopped, exited, sink, eventVars,
                   auxVars>>

(***************************************************************************)
(* input/event_manager.rs: the keyboard hook, the bounded queue and the    *)
(* processing thread.                                                      *)
(***************************************************************************)
\* Events the hook builds before the model stops producing.
MaxEvents == 3

\* Capacity of the sync_channel (1000 in the code).
QueueCapacity == 2

\* Greatest suppression count the model lets suspend_hotkeys reach.
MaxSuspend == 2

\* The one GameProfile of the model; every sub-profile of Profiles is its child.
GameProfile == "Game"

\* Its sub-profiles in cycle_sub_profile's order (created_at, then id).
SubProfileOrder == <<"Movement", "Combat", "Aim">>

\* HotkeyTarget::Switch and HotkeyTarget::Cycle.
SwitchTarget(profile_id, sub_profile_id) ==
    [kind |-> "Switch", profile_id |-> profile_id, sub_profile_id |-> sub_profile_id]

CycleTarget(profile_id) ==
    [kind |-> "Cycle", profile_id |-> profile_id, sub_profile_id |-> "none"]

\* HotKey { key_name, modifiers }.
HotKey(key_name, modifiers) == [key_name |-> key_name, modifiers |-> modifiers]

\* The registrations the model starts with: two targets under F1, one under
\* Ctrl+F1 (for a profile that is not loaded) and one under F2.
Registrations ==
    [h \in {HotKey("F1", 0), HotKey("F1", 1), HotKey("F2", 0)} |->
        CASE h = HotKey("F1", 0) ->
                <<SwitchTarget(GameProfile, "Combat"), CycleTarget(GameProfile)>>
          [] h = HotKey("F1", 1) -> <<SwitchTarget("Other", "Movement")>>
          [] h = HotKey("F2", 0) -> <<CycleTarget(GameProfile)>>]

\* An empty HashMap.
EmptyMap == [k \in {} |-> 0]

\* HashMap::insert.
Insert(map, k, v) == [x \in DOMAIN map \cup {k} |-> IF x = k THEN v ELSE map[x]]

\* EventInputManager::new followed by lib.rs's update_button_callbacks for the
\* current profile, if there is one.
NewEventInputManager(current) ==
    [hotkey_mappings |-> Registrations,
     hotkey_suppression |-> 0,
     button_callbacks |->
        IF current = "none" THEN EmptyMap
        ELSE update_button_callbacks(Profiles[current]),
     key_states |-> EmptyMap,
     modifier_state |-> 0,
     events_processed |-> 0,
     events_dropped |-> 0]

\* What the operating system hands the hook: key, message and the modifier
\* bits the hook reads (1 = Ctrl).
RawEvents ==
    {[vk_code |-> 112, event_type |-> "KeyDown", modifiers |-> 0],
     [vk_code |-> 112, event_type |-> "KeyDown", modifiers |-> 1],
     [vk_code |-> 112, event_type |-> "KeyUp", modifiers |-> 0],
     [vk_code |-> 69, event_type |-> "KeyDown", modifiers |-> 0],
     [vk_code |-> 69, event_type |-> "SystemKeyDown", modifiers |-> 0],
     [vk_code |-> 69, event_type |-> "KeyUp", modifiers |-> 0]}

\* KeyInput: the raw event stamped with the instant the hook built it.
KeyInput(raw, timestamp) ==
    [vk_code |-> raw.vk_code, event_type |-> raw.event_type,
     modifiers |-> raw.modifiers, timestamp |-> timestamp]

\* A send that evicts the oldest queued event when the channel is full.
try_send_evicting(queue, key_input) ==
    IF Len(queue) < QueueCapacity
    THEN [ok |-> TRUE, queue |-> Append(queue, key_input)]
    ELSE [ok |-> FALSE, queue |-> Append(Tail(queue), key_input)]

\* SyncSender::try_send: appends when there is room, else returns Err(Full)
\* at once and leaves the channel alone.
try_send(queue, key_input) ==
    IF Len(queue) < QueueCapacity
    THEN [ok |-> TRUE, queue |-> Append(queue, key_input)]
    ELSE [ok |-> FALSE, queue |-> queue]

\* keyboard_hook_proc for one keyboard message that is not injected: build the
\* KeyInput, try_send it, count a drop on Err.
HookProc(raw) ==
    /\ ~exited
    /\ Len(hook_log) < MaxEvents
    /\ LET key_input == KeyInput(raw, Len(hook_log) + 1)
           sent == try_send(event_queue, key_input)
       IN /\ event_queue' = sent.queue
          /\ event_manager' =
                IF sent.ok THEN event_manager
                ELSE [event_manager EXCEPT !.events_dropped = @ + 1]
          /\ hook_log' = Append(hook_log, [key_input |-> key_input, sent |-> sent.ok])
    /\ UNCHANGED <<atomic_state, writerVars, engineVars, loop, depVars, ctlVars,
                   sink, handled, auxVars>>

\* A receive that takes the newest queued event.
recv_newest(queue) ==
    [key_input |-> queue[Len(queue)], queue |-> SubSeq(queue, 1, Len(queue) - 1)]

\* Receiver::recv on a non-empty channel: the oldest queued event.
recv(queue) == [key_input |-> Head(queue), queue |-> Tail(queue)]

\* `matches!(event_type, KeyDown | SystemKeyDown)`.
IsPressed(key_input) == key_input.event_type \in {"KeyDown", "SystemKeyDown"}

\* `states.get(&vk_code).copied().unwrap_or(false)`.
PrevState(key_states, vk_code) ==
    IF vk_code \in DOMAIN key_states THEN key_states[vk_code] ELSE FALSE

\* A repeat test that never finds a repeat.
IsRepeatNever(prev, is_pressed) == FALSE

\* `if prev == is_pressed`: the event repeats the key's last-known state.
IsRepeat(prev, is_pressed) == prev = is_pressed

\* update_atomic_modifier_state: Ctrl, Alt, Shift and Win keys set or clear
\* their bit, every other key leaves the word alone.
update_atomic_modifier_state(current, vk_code, is_pressed) ==
    LET bit == CASE vk_code \in {162, 163} -> 1
                 [] vk_code \in {164, 165} -> 2
                 [] vk_code \in {160, 161} -> 4
                 [] vk_code \in {91, 92} -> 8
                 [] OTHER -> 0
    IN IF bit = 0 THEN current
       ELSE IF is_pressed THEN BitOr(current, bit) ELSE BitAndNot(current, bit)

\* A match on the key code alone.
HotkeyMatchesKeyOnly(registered_hotkey, key_input) ==
    key_name_to_vk(registered_hotkey.key_name) = key_input.vk_code

\* process_hotkeys: `get_vk_code() == vk_code && modifiers as u16 == modifiers`.
HotkeyMatches(registered_hotkey, key_input) ==
    /\ key_name_to_vk(registered_hotkey.key_name) = key_input.vk_code
    /\ registered_hotkey.modifiers = key_input.modifiers

\* process_hotkeys: nothing while suppressed; else the targets of the first
\* registered hotkey that matches, in whatever order the HashMap iterates.
\* The result is the set of target lists the call can invoke.
process_hotkeys(hotkey_mappings, hotkey_suppression, key_input) ==
    LET matching == {h \in DOMAIN hotkey_mappings : HotkeyMatches(h, key_input)}
    IN IF hotkey_suppression > 0 \/ matching = {}
       THEN {<<>>}
       ELSE {hotkey_mappings[h] : h \in matching}

\* ProfileManager::get_current_profile_id: the GameProfile is loaded exactly
\* when one of its sub-profiles is current.
get_current_profile_id(current) == IF current = "none" THEN "none" ELSE GameProfile

\* ProfileManager::cycle_sub_profile: the sub-profile after the current one.
cycle_sub_profile(current) ==
    LET index == CHOOSE i \in 1..Len(SubProfileOrder) : SubProfileOrder[i] = current
    IN SubProfileOrder[(index % Len(SubProfileOrder)) + 1]

\* A callback without the test of the loaded profile's id.
RunTargetAnyProfile(st, target) ==
    [current |-> IF target.kind = "Switch" THEN target.sub_profile_id
                 ELSE cycle_sub_profile(st.current),
     switched |-> TRUE]

\* hotkey_manager.rs switch_callback / cycle_callback: ignored unless the
\* target's profile is the loaded one, else the manager switches.
RunTarget(st, target) ==
    IF get_current_profile_id(st.current) # target.profile_id
    THEN st
    ELSE [current |-> IF target.kind = "Switch" THEN target.sub_profile_id
                      ELSE cycle_sub_profile(st.current),
          switched |-> TRUE]

\* The `for target in targets` loop.
RECURSIVE RunTargets(_, _, _)
RunTargets(st, targets, i) ==
    IF i > Len(targets) THEN st
    ELSE RunTargets(RunTarget(st, targets[i]), targets, i + 1)

\* One iteration of the processing thread: receive, count, de-duplicate against
\* key_states, update the modifier word, and for a state change dispatch the
\* hotkeys of a press and then the key's button callback.  A hotkey callback
\* that switches runs update_systems_after_profile_switch before the button
\* callback is looked up.
ProcessEvent ==
    /\ ~exited
    /\ event_queue # <<>>
    /\ LET got == recv(event_queue)
           key_input == got.key_input
           is_pressed == IsPressed(key_input)
           prev == PrevState(event_manager.key_states, key_input.vk_code)
           process_event == ~IsRepeat(prev, is_pressed)
       IN \E invoked \in
                IF process_event /\ is_pressed
                THEN process_hotkeys(event_manager.hotkey_mappings,
                                     event_manager.hotkey_suppression, key_input)
                ELSE {<<>>} :
            LET st == RunTargets([current |-> pm_current, switched |-> FALSE],
                                 invoked, 1)
                callbacks == IF st.switched
                             THEN update_button_callbacks(Profiles[st.current])
                             ELSE event_manager.button_callbacks
                reset == IF st.switched THEN set_buttons(atomic_state, 0)
                         ELSE atomic_state
                has_callback == process_event /\ key_input.vk_code \in DOMAIN callbacks
            IN /\ invoked # <<>> =>
                      \A l \in {"PROFILE_MANAGER", "EVENT_INPUT_MANAGER",
                                "MAPPING_ENGINE"} : lock[l] = "free"
               /\ event_queue' = got.queue
               /\ event_manager' =
                     [event_manager EXCEPT
                        !.events_processed = @ + 1,
                        !.key_states = IF process_event
                                       THEN Insert(@, key_input.vk_code, is_pressed)
                                       ELSE @,
                        !.modifier_state =
                            update_atomic_modifier_state(@, key_input.vk_code,
                                                         is_pressed),
                        !.button_callbacks = callbacks]
               /\ pm_current' = st.current
               /\ current_profile' = IF st.switched THEN StoreProfile(st.current)
                                     ELSE current_profile
               /\ atomic_state' =
                     IF has_callback
                     THEN set_buttons(reset,
                                      NewValue(reset.buttons,
                                               callbacks[key_input.vk_code],
                                               is_pressed))
                     ELSE reset
               /\ handled' = Append(handled,
                                    [key_input |-> key_input,
                                     process_event |-> process_event,
                                     invoked |-> invoked,
                                     button |-> IF has_callback
                                                THEN callbacks[key_input.vk_code]
                                                ELSE 0])
    /\ UNCHANGED <<writerVars, mapping_active, mapping_thread, loop, depVars,
                   lock, ctl, stopped, exited, sink, hook_log, auxVars>>

\* A decrement that wraps below zero.
ResumeBlind(current) == current - 1

\* resume_hotkeys: decrement only while the counter is above zero.
ResumeCount(current) == IF current = 0 THEN 0 ELSE current - 1

\* api::suspend_hotkeys: under EVENT_INPUT_MANAGER, hotkey_suppression += 1.
ApiSuspendHotkeys(c) ==
    /\ ~exited
    /\ ctl[c].pc = "idle"
    /\ lock["EVENT_INPUT_MANAGER"] = "free"
    /\ event_manager.hotkey_suppression < MaxSuspend
    /\ event_manager' = [event_manager EXCEPT !.hotkey_suppression = @ + 1]
    /\ UNCHANGED <<atomic_state, writerVars, engineVars, loop, depVars, ctlVars,
                   sink, event_queue, hook_log, handled, auxVars>>

\* api::resume_hotkeys: under EVENT_INPUT_MANAGER, the guarded decrement.
ApiResumeHotkeys(c) ==
    /\ ~exited
    /\ ctl[c].pc = "idle"
    /\ lock["EVENT_INPUT_MANAGER"] = "free"
    /\ event_manager' =
          [event_manager EXCEPT !.hotkey_suppression = ResumeCount(@)]
    /\ UNCHANGED <<atomic_state, writerVars, engineVars, loop, depVars, ctlVars,
                   sink, event_queue, hook_log, handled, auxVars>>

(***************************************************************************)
(* profile/manager.rs and profile/profiles.rs: the loaded GameProfile, its *)
(* sub-profiles and their compiled tables.                                 *)
(***************************************************************************)
\* Calls of ProfileManager methods the model makes.
MaxOps == 4

\* Sub-profiles ever created in the loaded profile; their ids are 1, 2, ...
MaxSubProfiles == 3

\* Names given to sub-profiles, key names and controls given to mappings.
\* "Foo" is no key key_name_to_vk knows.
SubProfileNames == {"Movement", "Combat"}
MappedKeyNames == {"W", "Foo"}
MappedControls == {"LeftStickUp", "ButtonA"}

\* KeyMapping with KeyMapping::default()'s dead zones and curve.
KeyMapping(key_name, gamepad_control) ==
    [key_name |-> key_name, gamepad_control |-> gamepad_control,
     dead_zone_inner |-> Den \div 20, dead_zone_outer |-> (19 * Den) \div 20]

\* SubProfile.
SubProfile(id, name, mappings) == [id |-> id, name |-> name, mappings |-> mappings]

\* `.iter().find(|sp| sp.name == name)` / `.find(|sp| sp.id == id)`: the
\* position of the first match, 0 when there is none.
FindFirst(seq, Matches(_)) ==
    IF \E i \in DOMAIN seq : Matches(seq[i])
    THEN CHOOSE i \in DOMAIN seq :
            Matches(seq[i]) /\ \A j \in DOMAIN seq : Matches(seq[j]) => i <= j
    ELSE 0

FindByName(sub_profiles, name) ==
    LET Named(sp) == sp.name = name IN FindFirst(sub_profiles, Named)

FindById(sub_profiles, id) ==
    LET HasId(sp) == sp.id = id IN FindFirst(sub_profiles, HasId)

\* compile_profile's loop: `mappings.insert(mapping.get_vk_code(), compiled)`
\* for each mapping in Vec order.
RECURSIVE CompileMappings(_, _, _)
CompileMappings(mappings, i, table) ==
    IF i > Len(mappings) THEN table
    ELSE CompileMappings(mappings, i + 1,
            Insert(table, key_name_to_vk(mappings[i].key_name),
                   Mapping(mappings[i].gamepad_control,
                           mappings[i].dead_zone_inner,
                           mappings[i].dead_zone_outer)))

\* GameProfile::compile_profile for a name some sub-profile has: the table of
\* the first sub-profile with that name.
compile_profile(sub_profiles, sub_profile_name) ==
    [mappings |->
        CompileMappings(sub_profiles[FindByName(sub_profiles, sub_profile_name)].mappings,
                        1, EmptyMap)]

\* HashMap::remove.
Remove(map, k) == [x \in DOMAIN map \ {k} |-> map[x]]

\* Vec::retain.
Retain(seq, Keep(_)) == SelectSeq(seq, Keep)

\* No mapping set for any key.
NothingSet == [k \in MappedKeyNames |-> "none"]

\* The manager after lib.rs has activated the default profile: one
\* sub-profile "Movement", loaded, compiled and active.  `latest` remembers,
\* per sub-profile and key name, the control most recently set and not removed.
LoadedManager ==
    LET movement == SubProfile(1, "Movement", <<KeyMapping("W", "LeftStickUp")>>)
    IN [loaded |-> TRUE,
        sub_profiles |-> <<movement>>,
        compiled_sub_profiles |-> Insert(EmptyMap, 1, compile_profile(<<movement>>, "Movement")),
        current_sub_profile_id |-> 1,
        next_id |-> 2,
        ops |-> 0,
        latest |-> Insert(EmptyMap, 1, [NothingSet EXCEPT !["W"] = "LeftStickUp"])]

\* A method call that changed `manager` into m.
ManagerCall(m) ==
    /\ manager.ops < MaxOps
    /\ manager' = [m EXCEPT !.ops = manager.ops + 1]
    /\ UNCHANGED <<coreVars, hook, calc>>

\* Replace the mappings of the sub-profile at position i.
WithMappings(sub_profiles, i, mappings) ==
    [sub_profiles EXCEPT ![i].mappings = mappings]

\* ProfileManager::set_current_mapping on an active sub-profile that exists:
\* replace the mapping with the same key_name or push, recompile by the
\* sub-profile's name, store the table under the sub-profile's id.
SetCurrentMapping(mapping) ==
    LET id == manager.current_sub_profile_id
        i == FindById(manager.sub_profiles, id)
        SameKey(m) == m.key_name = mapping.key_name
        old == manager.sub_profiles[i].mappings
        existing == FindFirst(old, SameKey)
        new == IF existing # 0 THEN [old EXCEPT ![existing] = mapping]
               ELSE Append(old, mapping)
        sub_profiles == WithMappings(manager.sub_profiles, i, new)
    IN /\ manager.loaded
       /\ id # 0
       /\ i # 0
       /\ ManagerCall(
            [manager EXCEPT
               !.sub_profiles = sub_profiles,
               !.compiled_sub_profiles =
                   Insert(@, id, compile_profile(sub_profiles, sub_profiles[i].name)),
               !.latest[id][mapping.key_name] = mapping.gamepad_control])

\* ProfileManager::remove_current_mapping: retain the other keys; recompile
\* only if something was removed.
RemoveCurrentMapping(key_name) ==
    LET id == manager.current_sub_profile_id
        i == FindById(manager.sub_profiles, id)
        OtherKey(m) == m.key_name # key_name
        old == manager.sub_profiles[i].mappings
        new == Retain(old, OtherKey)
        removed == Len(new) # Len(old)
        sub_profiles == WithMappings(manager.sub_profiles, i, new)
    IN /\ manager.loaded
       /\ id # 0
       /\ i # 0
       /\ ManagerCall(
            [manager EXCEPT
               !.sub_profiles = sub_profiles,
               !.compiled_sub_profiles =
                   IF removed
                   THEN Insert(@, id, compile_profile(sub_profiles, sub_profiles[i].name))
                   ELSE @,
               !.latest[id][key_name] = "none"])

\* ProfileManager::switch_profile for the loaded profile: the id becomes the
\* current one before the compiled table is looked up, found or not.
SwitchSubProfile(sub_profile_id) ==
    /\ manager.loaded
    /\ ManagerCall([manager EXCEPT !.current_sub_profile_id = sub_profile_id])

\* ProfileManager::cycle_sub_profile for the loaded profile: the sub-profile
\* after the current one in creation order, the first when none is current.
CycleSubProfile ==
    LET subs == manager.sub_profiles
        index == FindById(subs, manager.current_sub_profile_id)
        next == IF index = 0 THEN 1 ELSE (index % Len(subs)) + 1
    IN /\ manager.loaded
       /\ subs # <<>>
       /\ ManagerCall([manager EXCEPT !.current_sub_profile_id = subs[next].id])

\* ProfileManager::add_sub_profile to the loaded profile: push an empty
\* sub-profile, compile by its name, store the table under the new id.
AddSubProfile(name) ==
    LET id == manager.next_id
        sub_profiles == Append(manager.sub_profiles, SubProfile(id, name, <<>>))
    IN /\ manager.loaded
       /\ id <= MaxSubProfiles
       /\ ManagerCall(
            [manager EXCEPT
               !.sub_profiles = sub_profiles,
               !.compiled_sub_profiles = Insert(@, id, compile_profile(sub_profiles, name)),
               !.next_id = id + 1,
               !.latest = Insert(@, id, NothingSet)])

\* ProfileManager::rename_sub_profile in the loaded profile: rename, compile
\* by the new name, store the table under the sub-profile's id.
RenameSubProfile(sub_profile_id, new_name) ==
    LET i == FindById(manager.sub_profiles, sub_profile_id)
        sub_profiles == [manager.sub_profiles EXCEPT ![i].name = new_name]
    IN /\ manager.loaded
       /\ i # 0
       /\ ManagerCall(
            [manager EXCEPT
               !.sub_profiles = sub_profiles,
               !.compiled_sub_profiles =
                   Insert(@, sub_profile_id, compile_profile(sub_profiles, new_name))])

\* ProfileManager::delete_sub_profile in the loaded profile: deleting the
\* active sub-profile clears current_sub_profile_id and every compiled table;
\* deleting the last sub-profile goes on to delete_profile, which unloads.
DeleteSubProfile(sub_profile_id) ==
    LET i == FindById(manager.sub_profiles, sub_profile_id)
        OtherId(sp) == sp.id # sub_profile_id
        active == manager.current_sub_profile_id = sub_profile_id
        sub_profiles == Retain(manager.sub_profiles, OtherId)
        compiled == IF active THEN EmptyMap
                    ELSE Remove(manager.compiled_sub_profiles, sub_profile_id)
    IN /\ manager.loaded
       /\ i # 0
       /\ ManagerCall(
            IF sub_profiles = <<>>
            THEN [manager EXCEPT !.loaded = FALSE,
                                 !.sub_profiles = <<>>,
                                 !.compiled_sub_profiles = EmptyMap,
                                 !.current_sub_profile_id = 0]
            ELSE [manager EXCEPT
                    !.sub_profiles = sub_profiles,
                    !.compiled_sub_profiles = compiled,
                    !.current_sub_profile_id = IF active THEN 0 ELSE @])

(***************************************************************************)
(* Initial states.                                                         *)
(***************************************************************************)
\* Button bitmasks earlier set_button calls can have left behind.
InitialMasks ==
    {0, XboxButton.A + XboxButton.B, XboxButton.X,
     XboxButton.B + XboxButton.DPadUp + XboxButton.Y}

\* The parts every initial state shares: lib.rs initialize_internal has stored
\* both handles and MappingEngine::new() has run; no api call is in progress.
InitCommon ==
    /\ writer = [w \in Writers |-> IdleWriter]
    /\ last_call = [w \in Writers |-> "none"]
    /\ initial_buttons = atomic_state.buttons
    /\ WOOTING_SDK = "some"
    /\ VIGEM_CLIENT = "some"
    /\ lock = [l \in Locks |-> "free"]
    /\ ctl = [c \in Ctl |-> IdleCtl]
    /\ sink = [last |-> <<>>]
    /\ exited = FALSE

\* The event subsystem as initialize_internal leaves it: nothing queued or
\* handled yet, callbacks registered for the manager's current profile.
InitEventManager ==
    /\ event_queue = <<>>
    /\ event_manager = NewEventInputManager(pm_current)
    /\ hook_log = <<>>
    /\ handled = <<>>

\* The parts of the program a specification leaves out stay as they are here.
InitAux ==
    /\ manager = [current_profile |-> "none"]
    /\ hook = [pc |-> "idle"]
    /\ calc = [op |-> "none"]

\* After initialize_internal: each dependency's recorded status is Ok or an
\* error; the engine is stopped and caches no profile.
Init ==
    /\ atomic_state = NewAtomicGamepadState
    /\ InitCommon
    /\ WOOTING_INIT_STATUS \in {"ok", "err"}
    /\ VIGEM_INIT_STATUS \in {"ok", "err"}
    /\ mapping_active = FALSE
    /\ mapping_thread = 0
    /\ current_profile = "none"
    /\ loop = [t \in Threads |-> DeadLoop]
    /\ pm_current \in {"none", "Movement"}
    /\ stopped = FALSE
    /\ InitEventManager
    /\ InitAux

\* The engine Running: the state a successful start_mapping leaves, with the
\* spawned thread about to test the flag.
InitRunning ==
    /\ InitCommon
    /\ WOOTING_INIT_STATUS = "ok"
    /\ VIGEM_INIT_STATUS = "ok"
    /\ mapping_active = TRUE
    /\ mapping_thread = 1
    /\ loop = [t \in Threads |-> IF t = 1 THEN SpawnedLoop ELSE DeadLoop]
    /\ current_profile = pm_current
    /\ stopped = FALSE
    /\ InitEventManager
    /\ InitAux

\* Stopped engine, any button bitmask: the harness of the set_button threads.
InitButtons ==
    /\ atomic_state \in {[NewAtomicGamepadState EXCEPT !.buttons = m] :
                            m \in InitialMasks}
    /\ InitCommon
    /\ WOOTING_INIT_STATUS = "ok"
    /\ VIGEM_INIT_STATUS = "ok"
    /\ mapping_active = FALSE
    /\ mapping_thread = 0
    /\ current_profile = "none"
    /\ loop = [t \in Threads |-> DeadLoop]
    /\ pm_current = "none"
    /\ stopped = FALSE
    /\ InitEventManager
    /\ InitAux

\* Running engine for the aggregation checks: any one profile cached.
InitAggregate ==
    /\ atomic_state = NewAtomicGamepadState
    /\ pm_current \in ProfileIds
    /\ InitRunning

\* Running engine for the concurrency checks of a tick.
InitLoop ==
    /\ atomic_state = NewAtomicGamepadState
    /\ pm_current \in {"none", "Movement"}
    /\ InitRunning

\* Stopped engine, any current sub-profile: the harness of the event subsystem.
InitEvents ==
    /\ atomic_state = NewAtomicGamepadState
    /\ InitCommon
    /\ WOOTING_INIT_STATUS = "ok"
    /\ VIGEM_INIT_STATUS = "ok"
    /\ mapping_active = FALSE
    /\ mapping_thread = 0
    /\ current_profile = "none"
    /\ loop = [t \in Threads |-> DeadLoop]
    /\ pm_current \in {"none", "Movement", "Combat"}
    /\ stopped = FALSE
    /\ InitEventManager
    /\ InitAux

\* Everything but the parts a specification is about: engine stopped, no
\* profile cached, nothing queued.
InitCore ==
    /\ atomic_state = NewAtomicGamepadState
    /\ InitCommon
    /\ WOOTING_INIT_STATUS = "ok"
    /\ VIGEM_INIT_STATUS = "ok"
    /\ mapping_active = FALSE
    /\ mapping_thread = 0
    /\ current_profile = "none"
    /\ loop = [t \in Threads |-> DeadLoop]
    /\ pm_current = "none"
    /\ stopped = FALSE
    /\ InitEventManager

\* The profile manager with the default profile active.
InitManager ==
    /\ InitCore
    /\ manager = LoadedManager
    /\ hook = [pc |-> "idle"]
    /\ calc = [op |-> "none"]

(***************************************************************************)
(* Inputs of each specification.                                           *)
(***************************************************************************)
\* Every buffer over the model's keys and depths.
AllBuffers == BuffersOver(Keys, RawValues)

\* The buffers the concurrency checks poll: empty, one key, two keys.
LoopBuffers ==
    {<<>>,
     <<AnalogInput("W", Den \div 2)>>,
     <<AnalogInput("W", (7 * Den) \div 10), AnalogInput("S", (3 * Den) \div 10)>>}

\* The buffers the life-cycle checks poll.
EngineBuffers == {<<>>, <<AnalogInput("W", Den \div 2)>>}

\* The profiles a switch can make current in the concurrency checks.
SwitchTargets == {"none", "Movement", "Combat"}

(***************************************************************************)
(* Specifications.                                                         *)
(***************************************************************************)
\* The engine's life cycle: both control threads start, stop and shut down,
\* the loop threads they spawn run.
Next ==
    \/ \E c \in Ctl :
          \/ ApiStartBegin(c)
          \/ ApiStartLockVigem(c)
          \/ ApiStartLockEngine(c)
          \/ ApiStartLockEngine2(c)
          \/ EngineStartJoin(c)
          \/ EngineStartCheck(c)
          \/ EngineStartHandles(c)
          \/ EngineStartProfile(c)
          \/ EngineStartSpawn(c)
          \/ ApiStopBegin(c)
          \/ ApiStopJoin(c)
          \/ CleanupBegin(c)
          \/ CleanupJoin(c)
          \/ CleanupWooting(c)
          \/ CleanupVigem(c)
          \/ ProcessExit(c)
    \/ \E t \in Threads : LoopStep(t, EngineBuffers)

Spec == Init /\ [][Next]_vars

\* A step of a call a control thread is in the middle of: everything but the
\* first step of an API call, which the user may never make.
CtlContinue(c) ==
    \/ ApiStartLockVigem(c)
    \/ ApiStartLockEngine(c)
    \/ ApiStartLockEngine2(c)
    \/ EngineStartJoin(c)
    \/ EngineStartCheck(c)
    \/ EngineStartHandles(c)
    \/ EngineStartProfile(c)
    \/ EngineStartSpawn(c)
    \/ ApiStopJoin(c)
    \/ CleanupJoin(c)
    \/ CleanupWooting(c)
    \/ CleanupVigem(c)
    \/ ProcessExit(c)

\* The life cycle under fair scheduling: a loop thread or a control thread in
\* a call that can take a step again and again eventually takes one (a thread
\* is never starved of a mutex that keeps becoming free).
SpecFair ==
    /\ Init
    /\ [][Next]_vars
    /\ \A t \in Threads : SF_vars(LoopStep(t, EngineBuffers))
    /\ \A c \in Ctl : SF_vars(CtlContinue(c))

\* N threads in set_button, each on its own bit.
NextButtons ==
    \E w \in Writers :
        \/ \E pressed \in BOOLEAN : SetButtonCall(w, ButtonOf(w), pressed)
        \/ SetButtonLoad(w)
        \/ SetButtonCas(w)

SpecButtons == InitButtons /\ [][NextButtons]_vars

\* One tick after another of a Running engine, over every input buffer.
NextAggregate == \E t \in Threads : LoopStep(t, AllBuffers)

SpecAggregate == InitAggregate /\ [][NextAggregate]_vars

\* A Running engine with the digital subsystem setting and clearing button A
\* and the IPC thread switching profiles.
NextLoop ==
    \/ \E t \in Threads : LoopStep(t, LoopBuffers)
    \/ \E pressed \in BOOLEAN : SetButtonCall(1, XboxButton.A, pressed)
    \/ SetButtonLoad(1)
    \/ SetButtonCas(1)
    \/ \E p \in SwitchTargets : ApiSwitchProfile("ipc", p)
    \/ UpdateReset("ipc")
    \/ UpdateLockManager("ipc")
    \/ UpdateCallbacks("ipc")
    \/ UpdateStore("ipc")

SpecLoop == InitLoop /\ [][NextLoop]_vars

\* A Running engine while both control threads switch profiles.
NextSync ==
    \/ \E t \in Threads : LoopStep(t, EngineBuffers)
    \/ \E c \in Ctl :
          \/ \E p \in SwitchTargets : ApiSwitchProfile(c, p)
          \/ UpdateReset(c)
          \/ UpdateLockManager(c)
          \/ UpdateCallbacks(c)
          \/ UpdateStore(c)

SpecSync == InitLoop /\ [][NextSync]_vars

\* Calls of the ProfileManager methods that edit the loaded profile.
NextManager ==
    \/ \E k \in MappedKeyNames, control \in MappedControls :
          SetCurrentMapping(KeyMapping(k, control))
    \/ \E k \in MappedKeyNames : RemoveCurrentMapping(k)
    \/ \E id \in 1..MaxSubProfiles : SwitchSubProfile(id)
    \/ CycleSubProfile
    \/ \E name \in SubProfileNames : AddSubProfile(name)
    \/ \E id \in 1..MaxSubProfiles, name \in SubProfileNames :
          RenameSubProfile(id, name)
    \/ \E id \in 1..MaxSubProfiles : DeleteSubProfile(id)

SpecManager == InitManager /\ [][NextManager]_vars

(***************************************************************************)
(* UnifiedCurve as a pure function: a curve is built from drawn arguments  *)
(* and applied to a drawn raw value.                                       *)
(***************************************************************************)
\* Ordinates of control points: 0, 0.5 and 1.
PointValues == {0, Den \div 2, Den}

\* Control-point lists with increasing abscissas, one or two steps apart.
SortedPointLists ==
    {<<>>}
    \cup {<<<<x1, y1>>>> : x1 \in {0, PointStep}, y1 \in PointValues}
    \cup {<<<<x1, y1>>, <<x1 + g1, y2>>>> :
             x1 \in {0, PointStep}, g1 \in {PointStep, 2 * PointStep},
             y1 \in PointValues, y2 \in PointValues}
    \cup {<<<<x1, y1>>, <<x1 + g1, y2>>, <<x1 + g1 + g2, y3>>>> :
             x1 \in {0, PointStep}, g1 \in {PointStep, 2 * PointStep},
             g2 \in {PointStep, 2 * PointStep},
             y1 \in PointValues, y2 \in PointValues, y3 \in PointValues}

\* The same lists as a caller may pass them: in order, or back to front.
Reverse(s) == [i \in 1..Len(s) |-> s[(Len(s) + 1) - i]]

PointLists ==
    SortedPointLists \cup {Reverse(s) : s \in {p \in SortedPointLists : Len(p) = 2}}

\* Dead-zone pairs: the full range, the default mapping's, a degenerate pair
\* and an inverted one.
DeadZonePairs ==
    {<<0, Den>>, <<Den \div 20, (19 * Den) \div 20>>,
     <<Den \div 2, Den \div 2>>, <<(7 * Den) \div 10, (3 * Den) \div 10>>}

CurveArgs ==
    {[curve_type |-> "Linear", use_smooth_interpolation |-> FALSE,
      custom_points |-> <<>>, dead_zone_inner |-> z[1], dead_zone_outer |-> z[2]] :
        z \in DeadZonePairs}
    \cup {[curve_type |-> "Custom", use_smooth_interpolation |-> s,
           custom_points |-> p, dead_zone_inner |-> z[1], dead_zone_outer |-> z[2]] :
             s \in BOOLEAN, p \in PointLists, z \in DeadZonePairs}

InitCurve ==
    /\ InitCore
    /\ manager = [current_profile |-> "none"]
    /\ hook = [pc |-> "idle"]
    /\ \E a \in CurveArgs : calc = [op |-> "args", args |-> a]

\* UnifiedCurve::new on the drawn arguments.
NewCurve ==
    /\ calc.op = "args"
    /\ calc' = [op |-> "curve", args |-> calc.args,
                curve |-> UnifiedCurve(calc.args.curve_type,
                                       calc.args.use_smooth_interpolation,
                                       calc.args.custom_points,
                                       calc.args.dead_zone_inner,
                                       calc.args.dead_zone_outer)]
    /\ UNCHANGED <<coreVars, manager, hook>>

\* CurveProcessor::process_input on a raw value of 0..1.
ProcessInput(raw_value) ==
    /\ calc.op = "curve"
    /\ calc' = [op |-> "output", args |-> calc.args, curve |-> calc.curve,
                raw_value |-> raw_value,
                output |-> process_input(calc.curve, raw_value)]
    /\ UNCHANGED <<coreVars, manager, hook>>

NextCurve ==
    \/ NewCurve
    \/ \E raw_value \in 0..Den : ProcessInput(raw_value)

SpecCurve == InitCurve /\ [][NextCurve]_vars

(***************************************************************************)
(* conversions.rs: hotkey text.  A text is modelled by the sequence of its *)
(* pieces between '+' signs, each without its surrounding blanks: no key   *)
(* name contains '+' or starts or ends with a blank, so join(" + ")        *)
(* followed by split('+') and trim() yields the joined pieces again.       *)
(***************************************************************************)
\* vk_to_key_name on the codes of the model; any other code is "Unknown".
vk_to_key_name(vk_code) ==
    CASE vk_code = 69 -> "E"
      [] vk_code = 83 -> "S"
      [] vk_code = 87 -> "W"
      [] vk_code = 112 -> "F1"
      [] vk_code = 113 -> "F2"
      [] vk_code = 33 -> "Page Up"
      [] vk_code \in {160, 161} -> "Shift"
      [] vk_code \in {162, 163} -> "Ctrl"
      [] vk_code \in {164, 165} -> "Alt"
      [] vk_code \in {91, 92} -> "Win"
      [] OTHER -> "Unknown"

\* get_all_supported_key_names: the names of a fixed list of codes, among them
\* the modifier codes CONTROL (17), SHIFT (16), MENU (18) and LWIN (91).
get_all_supported_key_names ==
    {vk_to_key_name(vk_code) : vk_code \in {69, 83, 87, 33, 17, 16, 18, 91, 112, 113}}

\* to_ascii_lowercase on the words the parser compares with.
to_ascii_lowercase(token) ==
    CASE token = "Ctrl" -> "ctrl"
      [] token = "Alt" -> "alt"
      [] token = "Shift" -> "shift"
      [] token = "Win" -> "win"
      [] token = "None" -> "none"
      [] OTHER -> token

\* Option<HotKey>.
NoHotKey == [is_some |-> FALSE, key_name |-> "", modifiers |-> 0]
SomeHotKey(hotkey) ==
    [is_some |-> TRUE, key_name |-> hotkey.key_name, modifiers |-> hotkey.modifiers]

\* hotkey_to_metadata_string: Ctrl, Alt, Shift, Win for the bits set, then the
\* key name.
hotkey_to_metadata_string(hotkey) ==
    (IF HasBit(hotkey.modifiers, 1) THEN <<"Ctrl">> ELSE <<>>)
    \o (IF HasBit(hotkey.modifiers, 2) THEN <<"Alt">> ELSE <<>>)
    \o (IF HasBit(hotkey.modifiers, 4) THEN <<"Shift">> ELSE <<>>)
    \o (IF HasBit(hotkey.modifiers, 8) THEN <<"Win">> ELSE <<>>)
    \o <<hotkey.key_name>>

\* The loop of metadata_hotkey_to_struct over the pieces from the i-th on.
RECURSIVE ParseTokens(_, _, _, _)
ParseTokens(tokens, i, modifiers, key_name) ==
    IF i > Len(tokens)
    THEN IF key_name = ""
         THEN NoHotKey
         ELSE [is_some |-> TRUE, key_name |-> key_name, modifiers |-> modifiers]
    ELSE LET word == to_ascii_lowercase(tokens[i])
         IN  IF tokens[i] = ""
             THEN ParseTokens(tokens, i + 1, modifiers, key_name)
             ELSE IF word \in {"ctrl", "control"}
             THEN ParseTokens(tokens, i + 1, BitOr(modifiers, 1), key_name)
             ELSE IF word = "alt"
             THEN ParseTokens(tokens, i + 1, BitOr(modifiers, 2), key_name)
             ELSE IF word = "shift"
             THEN ParseTokens(tokens, i + 1, BitOr(modifiers, 4), key_name)
             ELSE IF word \in {"win", "windows", "super"}
             THEN ParseTokens(tokens, i + 1, BitOr(modifiers, 8), key_name)
             ELSE ParseTokens(tokens, i + 1, modifiers, tokens[i])

\* metadata_hotkey_to_struct: None for an empty text and for "none" in any
\* case, else the modifiers named and the last piece that is no modifier word.
metadata_hotkey_to_struct(raw) ==
    IF \/ raw = <<>>
       \/ raw = <<"">>
       \/ (Len(raw) = 1 /\ to_ascii_lowercase(raw[1]) = "none")
    THEN NoHotKey
    ELSE ParseTokens(raw, 1, 0, "")

\* The hotkeys drawn: every modifier mask with every supported key name.
HotKeys ==
    {HotKey(key_name, modifiers) :
        key_name \in get_all_supported_key_names, modifiers \in 0..15}

InitHotkeyText ==
    /\ InitCore
    /\ manager = [current_profile |-> "none"]
    /\ hook = [pc |-> "idle"]
    /\ \E h \in HotKeys : calc = [op |-> "hotkey", hotkey |-> h]

\* hotkey_to_metadata_string on the drawn hotkey.
Serialize ==
    /\ calc.op = "hotkey"
    /\ calc' = [op |-> "text", hotkey |-> calc.hotkey,
                text |-> hotkey_to_metadata_string(calc.hotkey)]
    /\ UNCHANGED <<coreVars, manager, hook>>

\* metadata_hotkey_to_struct on the text written.
Parse ==
    /\ calc.op = "text"
    /\ calc' = [op |-> "parsed", hotkey |-> calc.hotkey, text |-> calc.text,
                parsed |-> metadata_hotkey_to_struct(calc.text)]
    /\ UNCHANGED <<coreVars, manager, hook>>

NextHotkeyText == Serialize \/ Parse

SpecHotkeyText == InitHotkeyText /\ [][NextHotkeyText]_vars

(***************************************************************************)
(* input/event_manager.rs: EventInputManager::start and stop, the hook     *)
(* thread and the processing thread they spawn and join.  The manager is   *)
(* used under the EVENT_INPUT_MANAGER mutex, so its calls follow one       *)
(* another; the threads of the n-th spawning start() carry the number n.   *)
(***************************************************************************)
\* How many times start() may spawn its two threads.
MaxStarts == 3

Starts == 1..MaxStarts

\* EventInputManager::new with no thread spawned yet.  Handles, the thread id
\* and the sender are 0 for None, else the number of the start() they are of.
NewLifecycle ==
    [pc |-> "idle", last |-> "none", is_running |-> FALSE,
     event_sender |-> 0, hook_thread |-> 0, processing_thread |-> 0,
     hook_thread_id |-> 0, spawned |-> 0, joining |-> 0,
     hook_threads |-> [n \in Starts |-> "none"],
     processing_threads |-> [n \in Starts |-> "none"],
     quit |-> [n \in Starts |-> FALSE]]

\* A thread that has been spawned and has not finished.
Live(threads) == {n \in Starts : threads[n] \notin {"none", "done"}}

\* The channel of start() number n has a sender left: the manager's, or the
\* clone the hook thread owns until it ends.
ChannelOpen(n) ==
    \/ hook.event_sender = n
    \/ hook.hook_threads[n] \notin {"none", "done"}

LifecycleStep(h) ==
    /\ hook' = h
    /\ UNCHANGED <<coreVars, manager, calc>>

\* start(): returns Ok at once when is_running is set; else creates the
\* channel, spawns the hook thread and waits for its thread id.
EventManagerStart ==
    /\ hook.pc = "idle"
    /\ IF hook.is_running
       THEN LifecycleStep([hook EXCEPT !.last = "start"])
       ELSE /\ hook.spawned < MaxStarts
            /\ LifecycleStep(
                   [hook EXCEPT !.pc = "start_recv",
                                !.spawned = hook.spawned + 1,
                                !.event_sender = hook.spawned + 1,
                                !.hook_threads[hook.spawned + 1] = "spawned"])

\* start(), after thread_id_receiver.recv(): the handle and id of the hook
\* thread are stored, the processing thread is spawned and its handle stored.
EventManagerStartSpawned ==
    /\ hook.pc = "start_recv"
    /\ hook.hook_threads[hook.spawned] # "spawned"
    /\ LifecycleStep(
           [hook EXCEPT !.pc = "idle", !.last = "start",
                        !.hook_thread_id = hook.spawned,
                        !.hook_thread = hook.spawned,
                        !.processing_thread = hook.spawned,
                        !.processing_threads[hook.spawned] = "spawned"])

\* stop(): returns at once when is_running is clear; else clears it, posts
\* WM_QUIT to the thread of hook_thread_id, drops the sender and takes the
\* hook thread's handle to join it.
EventManagerStop ==
    /\ hook.pc = "idle"
    /\ IF ~hook.is_running
       THEN LifecycleStep([hook EXCEPT !.last = "stop"])
       ELSE LifecycleStep(
                [hook EXCEPT !.pc = "stop_join_hook",
                             !.is_running = FALSE,
                             !.quit = [n \in Starts |->
                                          hook.quit[n] \/ n = hook.hook_thread_id],
                             !.event_sender = 0,
                             !.joining = hook.hook_thread,
                             !.hook_thread = 0])

\* stop(): the hook thread is joined, the processing thread's handle taken.
EventManagerStopJoinHook ==
    /\ hook.pc = "stop_join_hook"
    /\ hook.joining # 0 => hook.hook_threads[hook.joining] = "done"
    /\ LifecycleStep(
           [hook EXCEPT !.pc = "stop_join_processing",
                        !.joining = hook.processing_thread,
                        !.processing_thread = 0])

\* stop(): the processing thread is joined and stop() returns.
EventManagerStopJoinProcessing ==
    /\ hook.pc = "stop_join_processing"
    /\ hook.joining # 0 => hook.processing_threads[hook.joining] = "done"
    /\ LifecycleStep([hook EXCEPT !.pc = "idle", !.last = "stop", !.joining = 0])

\* Hook thread: sends its thread id, installs the hook (or fails to and
\* returns) and enters the message loop.
HookThreadInstall(n) ==
    /\ hook.hook_threads[n] = "spawned"
    /\ \/ LifecycleStep([hook EXCEPT !.hook_threads[n] = "loop"])
       \/ LifecycleStep([hook EXCEPT !.hook_threads[n] = "done"])

\* Hook thread: GetMessageW returns 0 for the WM_QUIT posted; the hook is
\* removed and the context, with its sender, dropped.
HookThreadExit(n) ==
    /\ hook.hook_threads[n] = "loop"
    /\ hook.quit[n]
    /\ LifecycleStep([hook EXCEPT !.hook_threads[n] = "done"])

\* Processing thread: is_running.store(true), then the receive loop.
ProcessingThreadBegin(n) ==
    /\ hook.processing_threads[n] = "spawned"
    /\ LifecycleStep([hook EXCEPT !.is_running = TRUE,
                                  !.processing_threads[n] = "recv"])

\* Processing thread: recv() fails once every sender is gone; the thread ends.
ProcessingThreadExit(n) ==
    /\ hook.processing_threads[n] = "recv"
    /\ ~ChannelOpen(n)
    /\ LifecycleStep([hook EXCEPT !.processing_threads[n] = "done"])

InitLifecycle ==
    /\ InitCore
    /\ manager = [current_profile |-> "none"]
    /\ calc = [op |-> "none"]
    /\ hook = NewLifecycle

NextLifecycle ==
    \/ EventManagerStart
    \/ EventManagerStartSpawned
    \/ EventManagerStop
    \/ EventManagerStopJoinHook
    \/ EventManagerStopJoinProcessing
    \/ \E n \in Starts :
          \/ HookThreadInstall(n)
          \/ HookThreadExit(n)
          \/ ProcessingThreadBegin(n)
          \/ ProcessingThreadExit(n)

SpecLifecycle == InitLifecycle /\ [][NextLifecycle]_vars

\* The hook producing key events, the processing thread handling them and
\* the control plane suspending and resuming hotkeys.
NextEvents ==
    \/ \E raw \in RawEvents : HookProc(raw)
    \/ ProcessEvent
    \/ \E c \in Ctl : ApiSuspendHotkeys(c)
    \/ \E c \in Ctl : ApiResumeHotkeys(c)

SpecEvents == InitEvents /\ [][NextEvents]_vars

(***************************************************************************)
(* Properties.                                                             *)
(***************************************************************************)
Bits16 == {1, 2, 4, 8, 16, 32, 64, 128, 256, 512, 1024, 2048, 4096, 8192,
           16384, 32768}

AllReturned == \A w \in Writers : writer[w].pc = "idle"

\* The value a bit must have once every call has returned: what the last call
\* for the bit asked for, or the initial value when no call targeted it.
ExpectedBit(bit) ==
    IF \E w \in Writers : ButtonOf(w) = bit /\ last_call[w] # "none"
    THEN \E w \in Writers : ButtonOf(w) = bit /\ last_call[w] = "set"
    ELSE HasBit(initial_buttons, bit)

\* C1: with N threads in set_button on pairwise distinct bits, once all calls
\* have returned each targeted bit has the value of the last call made for it
\* and every other bit of the bitmask has its initial value: no update is lost.
C1_NoLostUpdate ==
    AllReturned =>
        /\ atomic_state.buttons \in 0..65535
        /\ \A bit \in Bits16 : HasBit(atomic_state.buttons, bit) = ExpectedBit(bit)

\* C1 witness: both writers have returned, one having set a clear bit and the
\* other having cleared a set bit, next to bits nobody targeted.
C1_Witness ==
    /\ AllReturned
    /\ initial_buttons = XboxButton.B + XboxButton.DPadUp + XboxButton.Y
    /\ last_call[1] = "set"
    /\ last_call[2] = "clear"
    /\ atomic_state.buttons = XboxButton.A + XboxButton.DPadUp + XboxButton.Y

\* The accumulators after the first n keys of a buffer, all looked up in one
\* profile.
RECURSIVE FoldKeys(_, _, _)
FoldKeys(profile, buffer, n) ==
    IF n = 0
    THEN ZeroAcc
    ELSE ProcessKey(profile, FoldKeys(profile, buffer, n - 1), buffer[n])

\* C2: whatever update_cached_profile / clear_cached_profile stores while a
\* tick runs, the accumulators of the tick are those of its keys evaluated
\* against the one snapshot the tick loaded, never a mix of two profiles; and
\* the store into the engine is enabled wherever the loop thread is.
C2_NoTornProfile ==
    /\ \A t \in Threads :
          loop[t].pc \in {"keys", "write"} =>
              /\ loop[t].profile_guard \in ProfileIds
              /\ loop[t].acc =
                    FoldKeys(Profiles[loop[t].profile_guard], loop[t].input_buffer,
                             loop[t].idx - 1)
    /\ ctl["ipc"].pc = "up_engine" => ENABLED UpdateStore("ipc")

\* C2 witness: a two-key tick has processed both keys from the "Movement"
\* snapshot although the engine's profile was replaced by "Combat" meanwhile.
C2_Witness ==
    \E t \in Threads :
        /\ loop[t].pc = "write"
        /\ Len(loop[t].input_buffer) = 2
        /\ loop[t].profile_guard = "Movement"
        /\ current_profile = "Combat"
        /\ loop[t].acc["LeftStickUp"] > 0
        /\ loop[t].acc["LeftStickDown"] > 0

\* The stick and trigger fields of a gamepad state.
Analog(state) ==
    <<state.thumb_lx, state.thumb_ly, state.thumb_rx, state.thumb_ry,
      state.left_trigger, state.right_trigger>>

\* C3: from the return of stop_mapping until a later start_mapping spawns a
\* thread, no loop thread exists, no report reaches the sink and the stick and
\* trigger fields are not written.
C3_StoppedIsQuiet ==
    /\ [](stopped => (Alive = {} /\ ~mapping_active))
    /\ [][stopped =>
            /\ sink' = sink
            /\ Analog(atomic_state') = Analog(atomic_state)
            /\ \A t \in Threads : loop'[t].sent = 0]_vars

\* C3 witness: stop_mapping has returned on an engine that was Running and
\* whose loop had delivered a report with a deflected stick.
C3_Witness ==
    /\ stopped
    /\ \E c \in Ctl :
          /\ ctl[c].pc = "idle"
          /\ ctl[c].op = "stop"
          /\ ctl[c].was_running
    /\ sink.last # <<>>
    /\ atomic_state.thumb_ly # 0

\* C4: a step of the mapping loop leaves the button bitmask as it is; the
\* report a tick reads back carries the bitmask of that moment, and the report
\* the sink takes is the one the tick read back.
C4_LoopKeepsButtons ==
    [][\A t \in Threads :
          loop'[t] # loop[t] =>
              /\ atomic_state'.buttons = atomic_state.buttons
              /\ loop'[t].vigem_gamepad \notin {<<>>, loop[t].vigem_gamepad} =>
                    loop'[t].vigem_gamepad[1].buttons = atomic_state.buttons
              /\ sink' # sink => sink'.last = loop[t].vigem_gamepad]_vars

\* C4 witness: the sink holds a report with button A pressed next to a
\* deflected stick, and the bitmask still has A set after the tick's write.
C4_Witness ==
    /\ sink.last # <<>>
    /\ sink.last[1].buttons = XboxButton.A
    /\ sink.last[1].thumb_ly # 0
    /\ atomic_state.buttons = XboxButton.A
    /\ \E t \in Threads : loop[t].pc = "frame_end"

\* The positions in the buffer of the keys a profile maps to one control.
Contributors(profile, buffer, control) ==
    {i \in DOMAIN buffer :
        /\ buffer[i].key_code \in DOMAIN profile.mappings
        /\ profile.mappings[buffer[i].key_code].gamepad_control = control}

\* The curve output of the key at position i of the buffer.
Output(profile, buffer, i) ==
    process_input(profile.mappings[buffer[i].key_code], buffer[i].analog_value)

MaxOf(S) == CHOOSE m \in S : \A x \in S : x <= m

\* C5: once a tick has gone through its buffer, the accumulator of each
\* half-axis and trigger is the greatest curve output among the buffered keys
\* mapped to it, 0 if there is none, in whatever order the keys came; with two
\* positive contributions it is less than their sum.
C5_MaxAggregation ==
    \A t \in Threads :
        loop[t].pc = "write" =>
            \A control \in AnalogControls :
                LET profile == Profiles[loop[t].profile_guard]
                    buffer == loop[t].input_buffer
                    I == Contributors(profile, buffer, control)
                IN  /\ loop[t].acc[control] =
                          MaxOf({Output(profile, buffer, i) : i \in I} \cup {0})
                    /\ \A i, j \in I :
                          (/\ i # j
                           /\ Output(profile, buffer, i) > 0
                           /\ Output(profile, buffer, j) > 0) =>
                              loop[t].acc[control] <
                                  Output(profile, buffer, i) + Output(profile, buffer, j)

\* C5 witness: keys E (0.7) and W (0.3) both map to LeftStickUp; the greater
\* output came first in the buffer and is the accumulated value.
C5_Witness ==
    \E t \in Threads :
        /\ loop[t].pc = "write"
        /\ loop[t].profile_guard = "Movement"
        /\ Len(loop[t].input_buffer) = 2
        /\ loop[t].input_buffer[1] = AnalogInput("E", (7 * Den) \div 10)
        /\ loop[t].input_buffer[2].key_code = "W"
        /\ loop[t].input_buffer[2].analog_value = (3 * Den) \div 10
        /\ loop[t].acc["LeftStickUp"] = (7 * Den) \div 10

\* x truncated toward zero after scaling: trunc(scale * x / Den).
Scaled(scale, x) ==
    IF x >= 0 THEN (scale * x) \div Den ELSE -((scale * (-x)) \div Den)

\* positive - negative, clamped to [-1, 1].
AxisValue(acc, positive, negative) ==
    LET d == acc[positive] - acc[negative]
    IN  IF d > Den THEN Den ELSE IF d < -Den THEN -Den ELSE d

\* acc clamped to [0, 1].
TriggerValue(acc, control) ==
    IF acc[control] > Den THEN Den ELSE IF acc[control] < 0 THEN 0 ELSE acc[control]

\* C6: after the tick's write each stick axis is
\* trunc(32767 * clamp(positive - negative, -1, 1)) and each trigger
\* trunc(255 * clamp(acc, 0, 1)); stick values stay within [-32767, 32767] and
\* triggers within [0, 255]; 0.5 on LeftStickUp alone gives Y = 16383.
C6_Conversion ==
    /\ atomic_state.thumb_lx \in -32767..32767
    /\ atomic_state.thumb_ly \in -32767..32767
    /\ atomic_state.thumb_rx \in -32767..32767
    /\ atomic_state.thumb_ry \in -32767..32767
    /\ atomic_state.left_trigger \in 0..255
    /\ atomic_state.right_trigger \in 0..255
    /\ \A t \in Threads :
          loop[t].pc = "readback" =>
              LET acc == loop[t].acc
              IN  /\ atomic_state.thumb_lx =
                        Scaled(32767, AxisValue(acc, "LeftStickRight", "LeftStickLeft"))
                  /\ atomic_state.thumb_ly =
                        Scaled(32767, AxisValue(acc, "LeftStickUp", "LeftStickDown"))
                  /\ atomic_state.thumb_rx =
                        Scaled(32767, AxisValue(acc, "RightStickRight", "RightStickLeft"))
                  /\ atomic_state.thumb_ry =
                        Scaled(32767, AxisValue(acc, "RightStickUp", "RightStickDown"))
                  /\ atomic_state.left_trigger =
                        Scaled(255, TriggerValue(acc, "LeftTrigger"))
                  /\ atomic_state.right_trigger =
                        Scaled(255, TriggerValue(acc, "RightTrigger"))
                  /\ (2 * acc["LeftStickUp"] = Den /\ acc["LeftStickDown"] = 0) =>
                        atomic_state.thumb_ly = 16383

\* C6 witness: a tick has written Y = 16383 from 0.5 on LeftStickUp alone.
C6_Witness ==
    \E t \in Threads :
        /\ loop[t].pc = "readback"
        /\ 2 * loop[t].acc["LeftStickUp"] = Den
        /\ loop[t].acc["LeftStickDown"] = 0
        /\ atomic_state.thumb_ly = 16383

\* C7: every tick of a Running loop, a tick with no profile cached or with no
\* key pressed included, has sent exactly one report by the time it ends.
C7_EveryTickSends ==
    \A t \in Threads : loop[t].pc = "frame_end" => loop[t].sent = 1

\* C8: at the end of a tick whose poll failed or returned no keys, the sticks
\* and triggers of the atomic state are zero.
C8_IdleTickZeroes ==
    \A t \in Threads :
        (/\ loop[t].pc = "frame_end"
         /\ (~loop[t].input_success \/ loop[t].input_buffer = <<>>)) =>
            Analog(atomic_state) = <<0, 0, 0, 0, 0, 0>>

\* A start_mapping call of control thread c has returned an error.
StartFailed(c) ==
    /\ ctl[c].pc = "idle"
    /\ ctl[c].op = "start"
    /\ ctl[c].result = "err"

\* C9: once start_mapping has returned an error the engine is not active and
\* no loop thread exists; the failing call spawns no thread and nothing
\* reaches the sink while the engine stays stopped.
C9_StartFailsClosed ==
    \A c \in Ctl : StartFailed(c) => (~mapping_active /\ Alive = {})

DepsReady ==
    /\ StatusOk(WOOTING_INIT_STATUS)
    /\ StatusOk(VIGEM_INIT_STATUS)
    /\ WOOTING_SDK = "some"
    /\ VIGEM_CLIENT = "some"

\* C10: at most one loop thread is alive at any time; a thread is spawned only
\* when none is alive; and a start_mapping that returns with both dependencies
\* ready returns success, leaving the engine Running with exactly one loop
\* thread, the one whose handle the engine holds.
C10_SingleLoopThread ==
    /\ [](Cardinality(Alive) <= 1)
    /\ [][/\ (\E t \in Threads : loop[t].pc = "dead" /\ loop'[t].pc # "dead") =>
                Alive = {}
          /\ \A c \in Ctl :
                (/\ ctl[c].op = "start"
                 /\ ctl[c].pc # "idle"
                 /\ ctl'[c].pc = "idle"
                 /\ DepsReady) =>
                    /\ ctl'[c].result = "ok"
                    /\ mapping_active'
                    /\ Cardinality({t \in Threads : loop'[t].pc # "dead"}) = 1
                    /\ mapping_thread' \in Threads
                    /\ loop'[mapping_thread'].pc # "dead"]_vars

\* C10 witness: a start_mapping called while the engine was Running has
\* returned success and a single loop thread is alive.
C10_Witness ==
    /\ \E c \in Ctl :
          /\ ctl[c].pc = "idle"
          /\ ctl[c].op = "start"
          /\ ctl[c].result = "ok"
          /\ ctl[c].was_running
    /\ mapping_active
    /\ Cardinality(Alive) = 1

\* Control thread c enters stop_mapping on an engine that is not running.
StopOnStopped(c) ==
    /\ ctl[c].pc = "idle"
    /\ ctl'[c].pc = "st_join"
    /\ ~mapping_active
    /\ mapping_thread = 0

\* C11: stop_mapping on an engine that is not running has nothing to join, so
\* its return is enabled at once while the process lives; neither its entry nor its return changes the
\* running flag, the thread handle, the cached profile or a loop thread's
\* counters, so a further stop finds the same state again.
C11_StopIsNoOp ==
    /\ [](\A c \in Ctl :
            (~exited /\ ctl[c].pc = "st_join" /\ ctl[c].join = 0) =>
                ENABLED ApiStopJoin(c))
    /\ [][\A c \in Ctl :
            /\ StopOnStopped(c) =>
                  /\ engineVars' = engineVars
                  /\ loop' = loop
                  /\ ctl'[c].join = 0
            /\ (/\ ctl[c].pc = "st_join"
                /\ ctl[c].join = 0
                /\ ctl'[c].pc = "idle") =>
                  /\ engineVars' = engineVars
                  /\ loop' = loop
                  /\ ctl'[c].result = "ok"]_vars

\* C11 witness: the tray thread's stop_mapping has returned from an engine that
\* the IPC thread's stop had already stopped, and the cached profile is kept.
C11_Witness ==
    /\ ctl["ipc"].pc = "idle"
    /\ ctl["ipc"].op = "stop"
    /\ ctl["ipc"].was_running
    /\ ctl["tray"].pc = "idle"
    /\ ctl["tray"].op = "stop"
    /\ ~ctl["tray"].was_running
    /\ ~mapping_active
    /\ mapping_thread = 0
    /\ current_profile = "Movement"

\* The tick of thread t is ending after a failed poll.
PollFailed(t) == loop[t].pc = "frame_end" /\ ~loop[t].input_success

\* The tick of thread t is ending after a transmission the sink did not take.
SendFailed(t) ==
    /\ loop[t].pc = "frame_end"
    /\ loop[t].sent = 1
    /\ sink.last # loop[t].vigem_gamepad

CountOutcome(profile, buffer, outcome) ==
    Cardinality({i \in DOMAIN buffer : KeyOutcome(profile, buffer[i]) = outcome})

\* C20 as stated: at the end of the key loop of a tick with a profile, hits +
\* misses of the tick equals the buffer length, a key present in the snapshot
\* being a hit and an absent one a miss.
C20_EveryKeyCounted ==
    \A t \in Threads :
        loop[t].pc = "write" =>
            loop[t].hits + loop[t].misses = Len(loop[t].input_buffer)

\* C20 amended: a key bound to an analog control is a hit, a key absent from
\* the snapshot is a miss, and a key bound to a digital button increments
\* neither counter; hits + misses of the tick is the number of buffered keys
\* not bound to a digital button.
C20_AnalogKeysCounted ==
    \A t \in Threads :
        loop[t].pc = "write" =>
            LET profile == Profiles[loop[t].profile_guard]
                buffer == loop[t].input_buffer
                present == {i \in DOMAIN buffer :
                               buffer[i].key_code \in DOMAIN profile.mappings}
                digital == {i \in present :
                               profile.mappings[buffer[i].key_code].gamepad_control
                                   \notin AnalogControls}
            IN  /\ loop[t].hits = Cardinality(present \ digital)
                /\ loop[t].misses = Cardinality(DOMAIN buffer \ present)
                /\ loop[t].hits + loop[t].misses = Len(buffer) - Cardinality(digital)

\* C20 witness: under "Combat" a tick has gone through W (a trigger) and E (a
\* digital button): one hit, no miss, two keys.
C20_Witness ==
    \E t \in Threads :
        /\ loop[t].pc = "write"
        /\ loop[t].profile_guard = "Combat"
        /\ Len(loop[t].input_buffer) = 2
        /\ {loop[t].input_buffer[1].key_code, loop[t].input_buffer[2].key_code} = {"W", "E"}
        /\ loop[t].hits = 1
        /\ loop[t].misses = 0

\* Number of events the hook built and could not send.
Unsent == Cardinality({i \in DOMAIN hook_log : ~hook_log[i].sent})

\* C13: keyboard_hook_proc never blocks: whatever the queue holds it runs to
\* its end.  With room in the queue the event is appended; with the queue at
\* capacity the event is discarded, the queued events are unchanged and
\* events_dropped grows by exactly one, so events_dropped always counts the
\* discarded events and the queue never exceeds its capacity.
C13_HookNeverBlocks ==
    /\ [](/\ Len(event_queue) <= QueueCapacity
          /\ event_manager.events_dropped = Unsent
          /\ \A raw \in RawEvents :
                (~exited /\ Len(hook_log) < MaxEvents) => ENABLED HookProc(raw))
    /\ [][hook_log' # hook_log =>
            LET built == hook_log'[Len(hook_log')]
            IN IF Len(event_queue) = QueueCapacity
               THEN /\ ~built.sent
                    /\ event_queue' = event_queue
                    /\ event_manager'.events_dropped =
                          event_manager.events_dropped + 1
               ELSE /\ built.sent
                    /\ event_queue' = Append(event_queue, built.key_input)
                    /\ event_manager'.events_dropped =
                          event_manager.events_dropped]_vars

\* C13 witness: the hook has run against a full queue; the queue is still
\* full and the drop is counted.
C13_Witness ==
    /\ Len(event_queue) = QueueCapacity
    /\ event_manager.events_dropped = 1
    /\ Len(hook_log) = QueueCapacity + 1
    /\ ~hook_log[Len(hook_log)].sent

WasSent(entry) == entry.sent

\* The events the hook sent, in the order it built them.
SentEvents ==
    LET sent == SelectSeq(hook_log, WasSent)
    IN [i \in DOMAIN sent |-> sent[i].key_input]

\* The events the processing thread received, in the order it received them.
HandledEvents == [i \in DOMAIN handled |-> handled[i].key_input]

\* C14: the events the processing thread has handled, followed by the events
\* still queued, are exactly the events the hook sent, in the order the hook
\* built them: the handled sequence is a subsequence of the produced one, with
\* nothing reordered or duplicated and only the overflow drops missing.
C14_FifoOrder ==
    /\ HandledEvents \o event_queue = SentEvents
    /\ \A i, j \in DOMAIN handled :
          i < j => handled[i].key_input.timestamp < handled[j].key_input.timestamp
    /\ event_manager.events_processed = Len(handled)

\* C14 witness: two events handled in the order they were built, after a third
\* was dropped on overflow.
C14_Witness ==
    /\ Len(handled) = 2
    /\ Unsent = 1
    /\ event_queue = <<>>
    /\ handled[1].key_input.timestamp = 1
    /\ handled[2].key_input.timestamp = 2

\* Positions of handled whose event passed de-duplication, for one key.
Passed(vk_code) ==
    {i \in DOMAIN handled :
        handled[i].process_event /\ handled[i].key_input.vk_code = vk_code}

\* C15: for each key the events that pass de-duplication begin with a press
\* and strictly alternate press / release; an event equal to the key's
\* last-known state (released by default) invokes no hotkey callback and no
\* button callback and leaves key_states unchanged, and every other event
\* passes and records its state.
C15_DedupAlternates ==
    /\ [](\A vk_code \in {raw.vk_code : raw \in RawEvents} :
            \A i \in Passed(vk_code) :
                LET earlier == {j \in Passed(vk_code) : j < i}
                IN IF earlier = {}
                   THEN IsPressed(handled[i].key_input)
                   ELSE LET last == CHOOSE j \in earlier : \A k \in earlier : k <= j
                        IN IsPressed(handled[i].key_input) #
                               IsPressed(handled[last].key_input))
    /\ [](\A i \in DOMAIN handled :
            ~handled[i].process_event =>
                (handled[i].invoked = <<>> /\ handled[i].button = 0))
    /\ [][handled' # handled =>
            LET done == handled'[Len(handled')]
                vk_code == done.key_input.vk_code
                is_pressed == IsPressed(done.key_input)
                prev == PrevState(event_manager.key_states, vk_code)
            IN /\ done.process_event = (prev # is_pressed)
               /\ ~done.process_event =>
                     /\ event_manager'.key_states = event_manager.key_states
                     /\ atomic_state' = atomic_state
                     /\ pm_current' = pm_current
               /\ done.process_event =>
                     PrevState(event_manager'.key_states, vk_code) = is_pressed]_vars

\* C15 witness: a press of E passed, its auto-repeat was discarded and the
\* release passed.
C15_Witness ==
    /\ Len(handled) = 3
    /\ \A i \in 1..3 : handled[i].key_input.vk_code = key_name_to_vk("E")
    /\ handled[1].process_event /\ IsPressed(handled[1].key_input)
    /\ ~handled[2].process_event /\ IsPressed(handled[2].key_input)
    /\ handled[3].process_event /\ ~IsPressed(handled[3].key_input)

\* The registered hotkeys whose key code and modifier bitmask both equal the
\* event's.
Registered(key_input) ==
    {h \in DOMAIN event_manager.hotkey_mappings :
        /\ key_name_to_vk(h.key_name) = key_input.vk_code
        /\ h.modifiers = key_input.modifiers}

\* No target occurs twice in a list of targets.
NoRepeats(targets) ==
    \A i, j \in DOMAIN targets : targets[i] = targets[j] => i = j

\* C16: handling a key press that is a state change while the suppression
\* counter is 0 invokes, once each and in order, the callbacks of all targets
\* registered under the hotkey whose key code and modifier bitmask both equal
\* the event's, and of no other hotkey; a release, an auto-repeat and a press
\* whose key and modifiers match no registered hotkey invoke no callback.
C16_ExactHotkeyDispatch ==
    [][handled' # handled =>
          LET done == handled'[Len(handled')]
              key_input == done.key_input
              state_change ==
                  PrevState(event_manager.key_states, key_input.vk_code) #
                      IsPressed(key_input)
          IN /\ NoRepeats(done.invoked)
             /\ (~IsPressed(key_input) \/ ~state_change \/ Registered(key_input) = {})
                   => done.invoked = <<>>
             /\ (/\ IsPressed(key_input)
                 /\ state_change
                 /\ event_manager.hotkey_suppression = 0
                 /\ Registered(key_input) # {})
                   => /\ Cardinality(Registered(key_input)) = 1
                      /\ \A h \in Registered(key_input) :
                            done.invoked = event_manager.hotkey_mappings[h]]_vars

\* C16 witness: a press of F1 without modifiers has invoked both targets
\* registered under F1, and a press of Ctrl+F1 the one target under Ctrl+F1.
C16_Witness ==
    /\ \E i \in DOMAIN handled :
          /\ handled[i].key_input.modifiers = 0
          /\ handled[i].invoked =
                <<SwitchTarget(GameProfile, "Combat"), CycleTarget(GameProfile)>>
    /\ \E i \in DOMAIN handled :
          /\ handled[i].key_input.modifiers = 1
          /\ handled[i].invoked = <<SwitchTarget("Other", "Movement")>>

\* C17: suspend_hotkeys / resume_hotkeys form a nestable counter.  The counter
\* is never below zero; a suspend adds one and a resume takes one away, except
\* at zero where it changes nothing, so k suspends need k resumes; a press that
\* changes a key's state and matches a registered hotkey invokes its targets
\* exactly when the counter is zero; and no step of suspend, resume or the
\* processing thread changes the registered hotkeys and targets.
C17_NestableSuppression ==
    /\ [](event_manager.hotkey_suppression \in Nat)
    /\ [][/\ event_manager'.hotkey_mappings = event_manager.hotkey_mappings
          /\ \A c \in Ctl :
                /\ ApiSuspendHotkeys(c) =>
                      event_manager'.hotkey_suppression =
                          event_manager.hotkey_suppression + 1
                /\ ApiResumeHotkeys(c) =>
                      event_manager'.hotkey_suppression =
                          IF event_manager.hotkey_suppression = 0 THEN 0
                          ELSE event_manager.hotkey_suppression - 1
          /\ handled' # handled =>
                LET done == handled'[Len(handled')]
                IN /\ event_manager'.hotkey_suppression =
                          event_manager.hotkey_suppression
                   /\ (/\ done.process_event
                       /\ IsPressed(done.key_input)
                       /\ Registered(done.key_input) # {})
                         => ((done.invoked # <<>>) <=>
                                 (event_manager.hotkey_suppression = 0))]_vars

\* C17 witness: a press of F1 was handled while suppressed and invoked
\* nothing; after the resumes a later press of F1 invoked its targets, which
\* are still registered.
C17_Witness ==
    /\ event_manager.hotkey_suppression = 0
    /\ \E i, j \in DOMAIN handled :
          /\ i < j
          /\ handled[i].process_event
          /\ handled[i].key_input = KeyInput([vk_code |-> 112, event_type |-> "KeyDown", modifiers |-> 0], 1)
          /\ handled[i].invoked = <<>>
          /\ handled[j].invoked = event_manager.hotkey_mappings[HotKey("F1", 0)]

\* The keys of a compiled profile bound to button-type controls, as key codes;
\* none when no profile is active.
ButtonKeys(current) ==
    IF current = "none" THEN {}
    ELSE {key_name_to_vk(k) :
            k \in {x \in DOMAIN Profiles[current].mappings :
                     Profiles[current].mappings[x].gamepad_control
                         \notin AnalogControls}}

\* C18: once every change of the active sub-profile has completed (no control
\* thread is inside a switch or its update of the systems), the keys that have
\* a registered button callback are exactly the keys bound to button-type
\* controls in the active CompiledProfile, and none when no sub-profile is
\* active.
C18_CallbacksMatchProfile ==
    (\A c \in Ctl : ctl[c].pc = "idle") =>
        DOMAIN event_manager.button_callbacks = ButtonKeys(pm_current)

\* The mutexes a profile switch or a profile edit holds.
ProfileLocks == {"PROFILE_MANAGER", "EVENT_INPUT_MANAGER", "MAPPING_ENGINE"}

\* C19: no step of a mapping-loop tick locks PROFILE_MANAGER,
\* EVENT_INPUT_MANAGER or MAPPING_ENGINE, and a step of the loop changes no
\* mutex and no control thread; so a live loop thread always has a step it can
\* take, whatever the control threads hold or wait for in the middle of a
\* profile operation, and the profile it works with is the one it loaded from
\* the engine's atomic pointer in this tick (dropped at the end of the tick).
C19_TickNeverWaitsForProfiles ==
    /\ [](\A t \in Threads :
            /\ LoopLocks(loop[t].pc) \cap ProfileLocks = {}
            /\ (loop[t].pc # "dead" /\ ~exited) => ENABLED LoopStep(t, EngineBuffers))
    /\ [][\A t \in Threads :
            loop'[t] # loop[t] =>
                /\ lock' = lock
                /\ ctl' = ctl
                /\ loop'[t].profile_guard # loop[t].profile_guard =>
                      \/ loop[t].pc = "load" /\ loop'[t].profile_guard = current_profile
                      \/ loop[t].pc = "frame_end" /\ loop'[t].profile_guard = "none"]_vars

\* C19 witness: a loop thread is past the load of its tick while one control
\* thread holds PROFILE_MANAGER and EVENT_INPUT_MANAGER in the middle of a
\* switch and the other is blocked on PROFILE_MANAGER.
C19_Witness ==
    \E t \in Threads :
        /\ loop[t].pc = "write"
        /\ lock["PROFILE_MANAGER"] = "tray"
        /\ lock["EVENT_INPUT_MANAGER"] = "tray"
        /\ ctl["tray"].pc = "up_engine"
        /\ ctl["ipc"].pc = "up_pm"

\* C21 as stated: compile_profile omits every mapping whose key name is not a
\* known physical key, so no compiled table has an entry under key code 0.
C21_UnknownKeysOmitted ==
    \A id \in DOMAIN manager.compiled_sub_profiles :
        0 \notin DOMAIN manager.compiled_sub_profiles[id].mappings

\* The mappings of a sub-profile are exactly the latest ones set: one per key
\* name that was set and not removed since, with the control last set.
HoldsLatestMappings(m, sp) ==
    /\ \A i, j \in DOMAIN sp.mappings :
          sp.mappings[i].key_name = sp.mappings[j].key_name => i = j
    /\ \A k \in MappedKeyNames :
          IF m.latest[sp.id][k] = "none"
          THEN \A i \in DOMAIN sp.mappings : sp.mappings[i].key_name # k
          ELSE \E i \in DOMAIN sp.mappings :
                  /\ sp.mappings[i].key_name = k
                  /\ sp.mappings[i].gamepad_control = m.latest[sp.id][k]

\* The compiled table stored for a sub-profile has exactly the sub-profile's
\* mappings: one entry per mapping, under the mapping's key code, with its
\* control and dead zones.
CompiledMatches(m, sp) ==
    /\ sp.id \in DOMAIN m.compiled_sub_profiles
    /\ LET table == m.compiled_sub_profiles[sp.id].mappings
       IN /\ DOMAIN table =
                {key_name_to_vk(sp.mappings[i].key_name) : i \in DOMAIN sp.mappings}
          /\ \A i \in DOMAIN sp.mappings :
                LET entry == table[key_name_to_vk(sp.mappings[i].key_name)]
                IN /\ entry.gamepad_control = sp.mappings[i].gamepad_control
                   /\ entry.dead_zone_inner = sp.mappings[i].dead_zone_inner
                   /\ entry.dead_zone_outer = sp.mappings[i].dead_zone_outer

\* A step that changed the mappings of the active sub-profile.
MappingsEdited ==
    /\ manager.loaded
    /\ manager'.sub_profiles # manager.sub_profiles
    /\ Len(manager'.sub_profiles) = Len(manager.sub_profiles)
    /\ \A i \in DOMAIN manager.sub_profiles :
          manager'.sub_profiles[i].name = manager.sub_profiles[i].name

\* C22 as stated: after any sequence of set_current_mapping and
\* remove_current_mapping calls every sub-profile holds at most one KeyMapping
\* per key, the one most recently set for it, and after each such edit the
\* recompiled CompiledProfile of the active sub-profile contains exactly the
\* sub-profile's mappings.
C22_LastWriteWinsAndCompiled ==
    /\ [](manager.loaded =>
            \A i \in DOMAIN manager.sub_profiles :
                HoldsLatestMappings(manager, manager.sub_profiles[i]))
    /\ [][MappingsEdited =>
            \A i \in DOMAIN manager'.sub_profiles :
                manager'.sub_profiles[i].id = manager'.current_sub_profile_id =>
                    CompiledMatches(manager', manager'.sub_profiles[i])]_vars

\* C23 as stated: whenever a profile is loaded, current_sub_profile_id is set
\* and names a sub-profile that exists in the loaded profile.
C23_OneActiveSubProfile ==
    manager.loaded =>
        /\ manager.current_sub_profile_id # 0
        /\ \E i \in DOMAIN manager.sub_profiles :
              manager.sub_profiles[i].id = manager.current_sub_profile_id


\* C24: for every curve type and every dead-zone pair, process_input of a raw
\* value below dead_zone_inner is exactly 0.
C24_ZeroBelowInnerDeadZone ==
    (calc.op = "output" /\ calc.raw_value < calc.curve.dead_zone_inner)
        => calc.output = 0

\* C24 witness: a Custom curve with a lookup table whose control point would
\* give 1 has been applied to a positive raw value below its inner dead zone.
C24_Witness ==
    /\ calc.op = "output"
    /\ calc.curve.curve_type = "Custom"
    /\ DOMAIN calc.curve.lut # {}
    /\ calc.curve.custom_points = <<<<0, Den>>>>
    /\ calc.raw_value > 0
    /\ calc.raw_value < calc.curve.dead_zone_inner
    /\ calc.output = 0

\* C25: for a Linear curve with dead_zone_outer > dead_zone_inner,
\* process_input of every raw value at or above dead_zone_outer is exactly 1.
C25_LinearOneAboveOuterDeadZone ==
    (/\ calc.op = "output"
     /\ calc.curve.curve_type = "Linear"
     /\ calc.curve.dead_zone_outer > calc.curve.dead_zone_inner
     /\ calc.raw_value >= calc.curve.dead_zone_outer)
        => calc.output = Den

\* C25 witness: a Linear curve with dead zones 0.05 / 0.95 has been applied to
\* a raw value strictly above its outer dead zone.
C25_Witness ==
    /\ calc.op = "output"
    /\ calc.curve.curve_type = "Linear"
    /\ calc.curve.dead_zone_inner = Den \div 20
    /\ calc.curve.dead_zone_outer = (19 * Den) \div 20
    /\ calc.raw_value > calc.curve.dead_zone_outer
    /\ calc.output = Den

\* The control points of the built curve are non-decreasing in y.
MonotonePoints(points) ==
    \A i \in 1..(Len(points) - 1) : points[i][2] <= points[i + 1][2]

\* C26 as stated: for a Custom curve with smooth interpolation whose sorted
\* control points are non-decreasing in y, the lookup table is non-decreasing
\* over the whole input range and every entry and output lies in 0..1.
C26_SmoothCurveMonotone ==
    (/\ calc.op \in {"curve", "output"}
     /\ calc.curve.curve_type = "Custom"
     /\ calc.curve.use_smooth_interpolation
     /\ DOMAIN calc.curve.lut # {}
     /\ MonotonePoints(calc.curve.custom_points))
        => /\ \A i \in 0..(LUT_SIZE - 2) :
                  calc.curve.lut[i] <= calc.curve.lut[i + 1]
           /\ \A i \in 0..(LUT_SIZE - 1) :
                  calc.curve.lut[i] >= 0 /\ calc.curve.lut[i] <= LutOne
           /\ calc.op = "output" => (calc.output >= 0 /\ calc.output <= Den)


\* The place of a modifier word in the fixed order Ctrl, Alt, Shift, Win.
ModifierRank == [Ctrl |-> 1, Alt |-> 2, Shift |-> 3, Win |-> 4]
ModifierBit == [Ctrl |-> 1, Alt |-> 2, Shift |-> 4, Win |-> 8]

\* C27 as stated: for every hotkey with a modifier mask in 0..15 and a supported
\* key name, parsing the text written for it gives the hotkey back, and the
\* text names exactly the modifiers set, in the order Ctrl, Alt, Shift, Win,
\* followed by the key name.
C27_HotkeyTextRoundTrip ==
    (calc.op = "parsed")
        => /\ calc.parsed = SomeHotKey(calc.hotkey)
           /\ calc.text[Len(calc.text)] = calc.hotkey.key_name
           /\ \A i \in 1..(Len(calc.text) - 1) :
                  /\ calc.text[i] \in DOMAIN ModifierRank
                  /\ HasBit(calc.hotkey.modifiers, ModifierBit[calc.text[i]])
                  /\ \A j \in 1..(i - 1) :
                         ModifierRank[calc.text[j]] < ModifierRank[calc.text[i]]
           /\ \A w \in DOMAIN ModifierBit :
                  HasBit(calc.hotkey.modifiers, ModifierBit[w])
                      => \E i \in 1..(Len(calc.text) - 1) : calc.text[i] = w


\* C28 as stated: under fair scheduling, once api::stop_mapping has stored the
\* flag false and waits in the join, the loop thread it joins leaves the loop
\* and stop_mapping returns (or the process has exited).
C28_StopTerminates ==
    \A c \in Ctl :
        (ctl[c].pc = "st_join") ~> (ctl[c].pc # "st_join" \/ exited)


\* C29 as stated: at most one hook thread and one processing thread exist at
\* any time, and when a stop() has returned, whatever the timing of the calls
\* before it, no hook thread and no processing thread is left running.
C29_OneThreadPairAndStopJoins ==
    /\ Cardinality(Live(hook.hook_threads)) <= 1
    /\ Cardinality(Live(hook.processing_threads)) <= 1
    /\ (hook.pc = "idle" /\ hook.last = "stop")
          => (Live(hook.hook_threads) = {} /\ Live(hook.processing_threads) = {})


\* The last message the hook saw for the key, sent or dropped; 0 when none.
LastSeen(vk_code) ==
    LET seen == {i \in DOMAIN hook_log : hook_log[i].key_input.vk_code = vk_code}
    IN  IF seen = {} THEN 0 ELSE CHOOSE i \in seen : \A j \in seen : j <= i

\* Every key the hook has seen is physically released: its last message is a
\* key-up.
AllReleased ==
    \A i \in DOMAIN hook_log :
        ~IsPressed(hook_log[LastSeen(hook_log[i].key_input.vk_code)].key_input)

\* No hotkey has been dispatched: the active sub-profile is the initial one.
SubProfileUnchanged == \A i \in DOMAIN handled : handled[i].invoked = <<>>

\* C30 as stated: with the active sub-profile unchanged, whenever every key is
\* physically released and the event queue has been drained, the button
\* bitmask is zero, also when events were dropped because the queue was full.
C30_NoStuckButton ==
    (/\ SubProfileUnchanged
     /\ AllReleased
     /\ event_queue = <<>>)
        => atomic_state.buttons = 0


(***************************************************************************)
(* The hotkey registry (input/event_manager.rs) and its registration from  *)
(* profile metadata (input/hotkey_manager.rs).                             *)
(***************************************************************************)
\* Option<String> of a metadata hotkey: absent, or the text split at '+'.
NoText == [is_some |-> FALSE, text |-> <<>>]
SomeText(text) == [is_some |-> TRUE, text |-> text]

\* SubProfileMetadata and ProfileMetadata, as far as the registration reads them.
SubMeta(id, hotkey) == [id |-> id, hotkey |-> hotkey]
ProfileMeta(id, hotkey, sub_metas) == [id |-> id, hotkey |-> hotkey, sub_metas |-> sub_metas]

\* The target a pair of targets is compared on (`existing.profile_id ==
\* profile_id && existing.sub_profile_id == sub_profile_id`, per kind).
SameTarget(a, b) ==
    /\ a.kind = b.kind
    /\ a.profile_id = b.profile_id
    /\ a.kind = "Switch" => a.sub_profile_id = b.sub_profile_id

\* A registration that pushes the target without looking for it in the list.
register_hotkey_unchecked(mappings, hotkey, target) ==
    IF hotkey \in DOMAIN mappings
    THEN [mappings |-> Insert(mappings, hotkey, Append(mappings[hotkey], target)),
          registered |-> TRUE]
    ELSE [mappings |-> Insert(mappings, hotkey, <<target>>), registered |-> TRUE]

\* register_switch_hotkey / register_cycle_hotkey: under the registry mutex,
\* Ok(false) when the hotkey's list already holds the target, else push, or
\* insert a one-element list for a hotkey not yet present.
register_hotkey(mappings, hotkey, target) ==
    IF hotkey \in DOMAIN mappings
    THEN IF \E i \in 1..Len(mappings[hotkey]) : SameTarget(mappings[hotkey][i], target)
         THEN [mappings |-> mappings, registered |-> FALSE]
         ELSE [mappings |-> Insert(mappings, hotkey, Append(mappings[hotkey], target)),
               registered |-> TRUE]
    ELSE [mappings |-> Insert(mappings, hotkey, <<target>>), registered |-> TRUE]

register_switch_hotkey(mappings, hotkey, profile_id, sub_profile_id) ==
    register_hotkey(mappings, hotkey, SwitchTarget(profile_id, sub_profile_id))

register_cycle_hotkey(mappings, hotkey, profile_id) ==
    register_hotkey(mappings, hotkey, CycleTarget(profile_id))

\* clear_hotkeys.
clear_hotkeys == EmptyMap

\* EventInputManager::remove_hotkeys_for_profile: drop the profile's targets
\* from every list, and every hotkey whose list became empty.
remove_profile_targets(mappings, profile_id) ==
    LET Other(target) == target.profile_id # profile_id
        kept == [h \in DOMAIN mappings |-> Retain(mappings[h], Other)]
    IN [h \in {k \in DOMAIN kept : kept[k] # <<>>} |-> kept[h]]

\* register_profile_hotkeys, the loop over sub_metas from the i-th on: a
\* switch hotkey for every sub-profile whose text parses.
RECURSIVE RegisterSwitches(_, _, _, _)
RegisterSwitches(mappings, profile_meta, sub_metas, i) ==
    IF i > Len(sub_metas) THEN mappings
    ELSE LET sub_meta == sub_metas[i]
             hotkey == IF sub_meta.hotkey.is_some
                       THEN metadata_hotkey_to_struct(sub_meta.hotkey.text)
                       ELSE NoHotKey
             next == IF hotkey.is_some
                     THEN register_switch_hotkey(mappings,
                              HotKey(hotkey.key_name, hotkey.modifiers),
                              profile_meta.id, sub_meta.id).mappings
                     ELSE mappings
         IN RegisterSwitches(next, profile_meta, sub_metas, i + 1)

\* register_profile_hotkeys: the switch hotkeys, then the profile's cycle
\* hotkey when it has a sub-profile and its text parses.
register_profile_hotkeys(mappings, profile_meta, sub_metas) ==
    LET switches == RegisterSwitches(mappings, profile_meta, sub_metas, 1)
        hotkey == IF profile_meta.hotkey.is_some
                  THEN metadata_hotkey_to_struct(profile_meta.hotkey.text)
                  ELSE NoHotKey
    IN IF sub_metas # <<>> /\ hotkey.is_some
       THEN register_cycle_hotkey(switches, HotKey(hotkey.key_name, hotkey.modifiers),
                                  profile_meta.id).mappings
       ELSE switches

\* fill_missing_hotkeys, the loop over the profile metadata from the index-th on.
RECURSIVE FillFrom(_, _, _)
FillFrom(mappings, metadata, index) ==
    IF index > Len(metadata) THEN mappings
    ELSE FillFrom(register_profile_hotkeys(mappings, metadata[index],
                                           metadata[index].sub_metas),
                  metadata, index + 1)

fill_missing_hotkeys(mappings, metadata) == FillFrom(mappings, metadata, 1)

\* register_from_metadata: clear_hotkeys, then fill_missing_hotkeys.
register_from_metadata(metadata) == fill_missing_hotkeys(clear_hotkeys, metadata)

\* sync_profile_from_metadata: remove the profile's targets, then register
\* the profile again if the metadata still has it.
sync_profile_from_metadata(mappings, metadata, profile_id) ==
    LET removed == remove_profile_targets(mappings, profile_id)
        found == {i \in 1..Len(metadata) : metadata[i].id = profile_id}
    IN IF found = {} THEN removed
       ELSE LET profile_meta == metadata[CHOOSE i \in found : TRUE]
            IN register_profile_hotkeys(removed, profile_meta, profile_meta.sub_metas)

\* hotkey_manager.rs rebuild_hotkeys_from_metadata, sync_hotkeys_for_profile
\* and remove_hotkeys_for_profile, as functions of the registry and metadata.
rebuild_hotkeys_from_metadata(metadata) == register_from_metadata(metadata)

sync_hotkeys_for_profile(mappings, metadata, profile_id) ==
    fill_missing_hotkeys(sync_profile_from_metadata(mappings, metadata, profile_id),
                         metadata)

remove_hotkeys_for_profile(mappings, metadata, profile_id) ==
    fill_missing_hotkeys(remove_profile_targets(mappings, profile_id), metadata)


(***************************************************************************)
(* The processing thread at the granularity of its mutexes: one iteration  *)
(* of the `while let Ok(key_input) = receiver.recv()` loop, with           *)
(* process_hotkeys holding the registry mutex across the callbacks and     *)
(* each callback running update_systems_after_profile_switch.              *)
(***************************************************************************)
\* The profile metadata the registry is built from: the Game profile cycles
\* on F2 and switches to Combat on F1, the Other profile switches on Ctrl+F1.
Metadata ==
    <<ProfileMeta(GameProfile, SomeText(<<"F2">>),
                  <<SubMeta("Movement", NoText), SubMeta("Combat", SomeText(<<"F1">>)),
                    SubMeta("Aim", SomeText(<<"None">>))>>),
      ProfileMeta("Other", NoText, <<SubMeta("Movement", SomeText(<<"Ctrl", "F1">>))>>)>>

\* The processing thread between two events.
NoKeyInput == [vk_code |-> 0, event_type |-> "none", modifiers |-> 0]

\* The event subsystem after EventInputManager::start, the processing thread
\* between two events: the manager is in EVENT_INPUT_MANAGER, is_running is
\* set, the manager has its sender, the hook thread is in its message loop.
IdleProcessing ==
    [pc |-> "recv", hotkey_mappings |-> "free", event_input_manager |-> "some",
     key_input |-> NoKeyInput, process_event |-> FALSE, invoked |-> <<>>, next |-> 1,
     is_running |-> TRUE, event_sender |-> "some", hook_thread |-> "loop",
     quit |-> FALSE, notifications |-> 0]

\* What the processing-thread steps leave alone.
dispatchFrame == <<writerVars, mapping_active, mapping_thread, loop, depVars, ctl,
                   stopped, exited, sink, hook_log, manager, calc>>

\* The loop body up to process_hotkeys: count, de-duplicate against
\* key_states, update the modifier word.
ProcessingRecv ==
    /\ ~exited
    /\ hook.pc = "recv"
    /\ event_queue # <<>>
    /\ LET got == recv(event_queue)
           key_input == got.key_input
           is_pressed == IsPressed(key_input)
           prev == PrevState(event_manager.key_states, key_input.vk_code)
           process_event == ~IsRepeat(prev, is_pressed)
       IN /\ event_queue' = got.queue
          /\ event_manager' =
                [event_manager EXCEPT
                   !.events_processed = @ + 1,
                   !.key_states = IF process_event
                                  THEN Insert(@, key_input.vk_code, is_pressed)
                                  ELSE @,
                   !.modifier_state =
                       update_atomic_modifier_state(@, key_input.vk_code, is_pressed)]
          /\ hook' = [hook EXCEPT !.pc = IF process_event /\ is_pressed
                                         THEN "hotkeys" ELSE "buttons",
                                  !.key_input = key_input,
                                  !.process_event = process_event]
    /\ UNCHANGED <<atomic_state, current_profile, lock, pm_current, handled,
                   dispatchFrame>>

\* process_hotkeys: return while suppressed; else hotkey_mappings.lock() and
\* the search for the first registered hotkey that matches.  The guard is
\* kept while the targets of that hotkey are called.
ProcessingHotkeys ==
    /\ ~exited
    /\ hook.pc = "hotkeys"
    /\ IF event_manager.hotkey_suppression > 0
       THEN hook' = [hook EXCEPT !.pc = "buttons"]
       ELSE /\ hook.hotkey_mappings = "free"
            /\ \E invoked \in process_hotkeys(event_manager.hotkey_mappings,
                                              event_manager.hotkey_suppression,
                                              hook.key_input) :
                  hook' = IF invoked = <<>>
                          THEN [hook EXCEPT !.pc = "buttons"]
                          ELSE [hook EXCEPT !.pc = "callback",
                                            !.hotkey_mappings = "proc",
                                            !.invoked = invoked, !.next = 1]
    /\ UNCHANGED <<atomic_state, current_profile, lock, pm_current, event_queue,
                   event_manager, handled, dispatchFrame>>

\* The end of one callback: the next target, or the end of process_hotkeys,
\* which drops the registry guard.
NextTarget ==
    IF hook.next < Len(hook.invoked)
    THEN [hook EXCEPT !.pc = "callback", !.next = @ + 1]
    ELSE [hook EXCEPT !.pc = "buttons", !.hotkey_mappings = "free"]

\* switch_callback / cycle_callback: PROFILE_MANAGER.lock(), return unless
\* the target's profile is the loaded one, switch_profile or
\* cycle_sub_profile, drop the guard.
HotkeyCallback ==
    /\ ~exited
    /\ hook.pc = "callback"
    /\ lock["PROFILE_MANAGER"] = "free"
    /\ LET st == RunTarget([current |-> pm_current, switched |-> FALSE],
                           hook.invoked[hook.next])
       IN /\ pm_current' = st.current
          /\ hook' = IF st.switched THEN [hook EXCEPT !.pc = "cb_reset"]
                     ELSE NextTarget
    /\ UNCHANGED <<atomic_state, current_profile, lock, event_queue, event_manager,
                   handled, dispatchFrame>>

\* update_systems_after_profile_switch in the callback: set_buttons(0).
CallbackReset ==
    /\ ~exited
    /\ hook.pc = "cb_reset"
    /\ atomic_state' = set_buttons(atomic_state, 0)
    /\ hook' = [hook EXCEPT !.pc = "cb_pm"]
    /\ UNCHANGED <<current_profile, lock, pm_current, event_queue, event_manager,
                   handled, dispatchFrame>>

\* update_systems_after_profile_switch in the callback: PROFILE_MANAGER.lock().
CallbackLockManager ==
    /\ ~exited
    /\ hook.pc = "cb_pm"
    /\ lock["PROFILE_MANAGER"] = "free"
    /\ lock' = Acquire("PROFILE_MANAGER", "proc")
    /\ hook' = [hook EXCEPT !.pc = IF pm_current = "none" THEN "cb_engine"
                                   ELSE "cb_events"]
    /\ UNCHANGED <<atomic_state, current_profile, pm_current, event_queue,
                   event_manager, handled, dispatchFrame>>

\* update_systems_after_profile_switch in the callback:
\* EVENT_INPUT_MANAGER.lock() under PROFILE_MANAGER, update_button_callbacks
\* if the manager is still there.
CallbackEvents ==
    /\ ~exited
    /\ hook.pc = "cb_events"
    /\ lock["EVENT_INPUT_MANAGER"] = "free"
    /\ lock' = Acquire("EVENT_INPUT_MANAGER", "proc")
    /\ event_manager' =
          IF hook.event_input_manager = "some"
          THEN [event_manager EXCEPT
                  !.button_callbacks = update_button_callbacks(Profiles[pm_current])]
          ELSE event_manager
    /\ hook' = [hook EXCEPT !.pc = "cb_engine"]
    /\ UNCHANGED <<atomic_state, current_profile, pm_current, event_queue, handled,
                   dispatchFrame>>

\* update_systems_after_profile_switch in the callback: MAPPING_ENGINE.lock()
\* under the earlier guards, the store, the return that drops the guards, and
\* the callback's notify_sub_profile_switch.
CallbackStore ==
    /\ ~exited
    /\ hook.pc = "cb_engine"
    /\ lock["MAPPING_ENGINE"] = "free"
    /\ current_profile' = StoreProfile(pm_current)
    /\ lock' = ReleaseAll({l \in {"PROFILE_MANAGER", "EVENT_INPUT_MANAGER"} :
                              lock[l] = "proc"})
    /\ hook' = [NextTarget EXCEPT !.notifications = @ + 1]
    /\ UNCHANGED <<atomic_state, pm_current, event_queue, event_manager, handled,
                   dispatchFrame>>

\* process_button_callbacks for a state change, and the end of the iteration.
ProcessingButtons ==
    /\ ~exited
    /\ hook.pc = "buttons"
    /\ LET key_input == hook.key_input
           callbacks == event_manager.button_callbacks
           has_callback == hook.process_event /\ key_input.vk_code \in DOMAIN callbacks
       IN /\ atomic_state' =
                IF has_callback
                THEN set_buttons(atomic_state,
                                 NewValue(atomic_state.buttons,
                                          callbacks[key_input.vk_code],
                                          IsPressed(key_input)))
                ELSE atomic_state
          /\ handled' = Append(handled,
                               [key_input |-> key_input,
                                process_event |-> hook.process_event,
                                invoked |-> hook.invoked,
                                button |-> IF has_callback
                                           THEN callbacks[key_input.vk_code]
                                           ELSE 0])
    /\ hook' = [hook EXCEPT !.pc = "recv", !.key_input = NoKeyInput,
                             !.process_event = FALSE, !.invoked = <<>>, !.next = 1]
    /\ UNCHANGED <<current_profile, lock, pm_current, event_queue, event_manager,
                   dispatchFrame>>

\* Any step of the processing thread.
ProcessingStep ==
    \/ ProcessingRecv
    \/ ProcessingHotkeys
    \/ HotkeyCallback
    \/ CallbackReset
    \/ CallbackLockManager
    \/ CallbackEvents
    \/ CallbackStore
    \/ ProcessingButtons

(***************************************************************************)
(* The control-plane calls that re-register hotkeys                       *)
(* (input/hotkey_manager.rs, called from api/profiles.rs).                 *)
(***************************************************************************)
\* What the registration steps leave alone.
registerFrame == <<atomic_state, writerVars, engineVars, loop, depVars, pm_current,
                   stopped, exited, sink, event_queue, hook_log, handled, hook, calc>>

\* sync_hotkeys_for_profile (after api::rename_sub_profile and the like, which
\* released the manager) or rebuild_hotkeys_from_metadata:
\* PROFILE_MANAGER.lock().
HotkeysLockManager(c, op) ==
    /\ ~exited
    /\ ctl[c].pc = "idle"
    /\ lock["PROFILE_MANAGER"] = "free"
    /\ lock' = Acquire("PROFILE_MANAGER", c)
    /\ ctl' = [ctl EXCEPT ![c] = [IdleCtl EXCEPT !.pc = "hk_events", !.op = op]]
    /\ UNCHANGED <<event_manager, manager, registerFrame>>

\* api::delete_profile of a profile that is not loaded: the manager drops its
\* metadata under PROFILE_MANAGER and the guard is released.
ApiDeleteProfile(c, profile_id) ==
    /\ ~exited
    /\ ctl[c].pc = "idle"
    /\ lock["PROFILE_MANAGER"] = "free"
    /\ \E i \in 1..Len(manager.metadata) : manager.metadata[i].id = profile_id
    /\ LET Other(profile_meta) == profile_meta.id # profile_id
       IN manager' = [manager EXCEPT !.metadata = SelectSeq(@, Other)]
    /\ ctl' = [ctl EXCEPT ![c] = [IdleCtl EXCEPT !.pc = "rm_events", !.op = profile_id]]
    /\ UNCHANGED <<lock, event_manager, registerFrame>>

\* remove_hotkeys_for_profile, first block: EVENT_INPUT_MANAGER.lock().
RemoveLockEvents(c) ==
    /\ ~exited
    /\ ctl[c].pc = "rm_events"
    /\ lock["EVENT_INPUT_MANAGER"] = "free"
    /\ lock' = Acquire("EVENT_INPUT_MANAGER", c)
    /\ ctl' = [ctl EXCEPT ![c].pc = "rm_registry"]
    /\ UNCHANGED <<event_manager, manager, registerFrame>>

\* remove_hotkeys_for_profile, first block: the removal under the registry
\* mutex, and the end of the block.
RemoveTargets(c) ==
    /\ ~exited
    /\ ctl[c].pc = "rm_registry"
    /\ hook.hotkey_mappings = "free"
    /\ event_manager' =
          [event_manager EXCEPT
             !.hotkey_mappings = remove_profile_targets(@, ctl[c].op)]
    /\ lock' = ReleaseAll({"EVENT_INPUT_MANAGER"})
    /\ ctl' = [ctl EXCEPT ![c].pc = "rm_manager"]
    /\ UNCHANGED <<manager, registerFrame>>

\* remove_hotkeys_for_profile, second block: PROFILE_MANAGER.lock().
RemoveLockManager(c) ==
    /\ ~exited
    /\ ctl[c].pc = "rm_manager"
    /\ lock["PROFILE_MANAGER"] = "free"
    /\ lock' = Acquire("PROFILE_MANAGER", c)
    /\ ctl' = [ctl EXCEPT ![c].pc = "hk_events", ![c].op = "fill"]
    /\ UNCHANGED <<event_manager, manager, registerFrame>>

\* All three: EVENT_INPUT_MANAGER.lock() under PROFILE_MANAGER.
HotkeysLockEvents(c) ==
    /\ ~exited
    /\ ctl[c].pc = "hk_events"
    /\ lock["EVENT_INPUT_MANAGER"] = "free"
    /\ lock' = Acquire("EVENT_INPUT_MANAGER", c)
    /\ ctl' = [ctl EXCEPT ![c].pc = "hk_registry"]
    /\ UNCHANGED <<event_manager, manager, registerFrame>>

\* All three: the registry calls, each under the registry mutex, and the
\* return that drops both guards.
HotkeysRegister(c) ==
    /\ ~exited
    /\ ctl[c].pc = "hk_registry"
    /\ hook.hotkey_mappings = "free"
    /\ event_manager' =
          [event_manager EXCEPT
             !.hotkey_mappings =
                 CASE ctl[c].op = "rebuild" ->
                         rebuild_hotkeys_from_metadata(manager.metadata)
                   [] ctl[c].op = "sync" ->
                         sync_hotkeys_for_profile(@, manager.metadata, GameProfile)
                   [] OTHER -> fill_missing_hotkeys(@, manager.metadata)]
    /\ lock' = ReleaseAll({"PROFILE_MANAGER", "EVENT_INPUT_MANAGER"})
    /\ ctl' = Return(c, "ok")
    /\ UNCHANGED <<manager, registerFrame>>

\* A step of a registration call that has begun.
HotkeysContinue(c) ==
    \/ RemoveLockEvents(c)
    \/ RemoveTargets(c)
    \/ RemoveLockManager(c)
    \/ HotkeysLockEvents(c)
    \/ HotkeysRegister(c)

(***************************************************************************)
(* Who waits for whom.                                                     *)
(***************************************************************************)
\* The mutex a thread's next step acquires, "none" if it needs none.
Wanted(thread) ==
    IF thread = "proc"
    THEN CASE hook.pc = "hotkeys" /\ event_manager.hotkey_suppression = 0
                 -> "hotkey_mappings"
           [] hook.pc \in {"callback", "cb_pm"} -> "PROFILE_MANAGER"
           [] hook.pc = "cb_events" -> "EVENT_INPUT_MANAGER"
           [] hook.pc = "cb_engine" -> "MAPPING_ENGINE"
           [] OTHER -> "none"
    ELSE CASE ctl[thread].pc \in {"hk_registry", "rm_registry"} -> "hotkey_mappings"
           [] ctl[thread].pc \in {"hk_events", "rm_events", "up_events", "cl_events"}
                 -> "EVENT_INPUT_MANAGER"
           [] ctl[thread].pc \in {"rm_manager", "up_pm", "es_profile"}
                 -> "PROFILE_MANAGER"
           [] ctl[thread].pc \in {"up_engine", "as_engine", "as_engine2"}
                 -> "MAPPING_ENGINE"
           [] ctl[thread].pc = "es_check" -> "WOOTING_SDK"
           [] ctl[thread].pc \in {"as_vigem", "es_vigem"} -> "VIGEM_CLIENT"
           [] OTHER -> "none"

\* The thread holding a mutex, "free" if none does.
Owner(mutex) == IF mutex = "hotkey_mappings" THEN hook.hotkey_mappings ELSE lock[mutex]

\* The thread another thread cannot go on without: the owner of the mutex it
\* wants, or the processing thread it joins.
WaitsFor(thread) ==
    IF Wanted(thread) # "none" THEN Owner(Wanted(thread))
    ELSE IF thread # "proc" /\ ctl[thread].pc = "cl_processing" THEN "proc"
    ELSE "free"

\* Some threads each wait for another of them.
Deadlocked ==
    \E waiting \in SUBSET (Ctl \cup {"proc"}) :
        /\ waiting # {}
        /\ \A thread \in waiting : WaitsFor(thread) \in waiting

(***************************************************************************)
(* Hotkey dispatch against the calls that re-register hotkeys.             *)
(***************************************************************************)
\* The keys the hook sends in the dispatch checks: F1, Ctrl+F1 and F2 presses
\* and the F1 release.
DispatchEvents ==
    {[vk_code |-> 112, event_type |-> "KeyDown", modifiers |-> 0],
     [vk_code |-> 112, event_type |-> "KeyDown", modifiers |-> 1],
     [vk_code |-> 113, event_type |-> "KeyDown", modifiers |-> 0],
     [vk_code |-> 112, event_type |-> "KeyUp", modifiers |-> 0]}

\* A loaded Game profile, the registry built from the metadata, the
\* processing thread waiting for an event.
InitDispatch ==
    /\ atomic_state = NewAtomicGamepadState
    /\ InitCommon
    /\ WOOTING_INIT_STATUS = "ok"
    /\ VIGEM_INIT_STATUS = "ok"
    /\ mapping_active = FALSE
    /\ mapping_thread = 0
    /\ pm_current \in {"Movement", "Combat"}
    /\ current_profile = StoreProfile(pm_current)
    /\ loop = [t \in Threads |-> DeadLoop]
    /\ stopped = FALSE
    /\ event_queue = <<>>
    /\ event_manager = [NewEventInputManager(pm_current) EXCEPT
                          !.hotkey_mappings = register_from_metadata(Metadata)]
    /\ hook_log = <<>>
    /\ handled = <<>>
    /\ manager = [metadata |-> Metadata]
    /\ hook = IdleProcessing
    /\ calc = [op |-> "none"]

NextDispatch ==
    \/ \E raw \in DispatchEvents : HookProc(raw)
    \/ ProcessingStep
    \/ \E c \in Ctl :
          \/ HotkeysLockManager(c, "sync")
          \/ HotkeysLockManager(c, "rebuild")
          \/ ApiDeleteProfile(c, "Other")
          \/ HotkeysContinue(c)

SpecDispatch == InitDispatch /\ [][NextDispatch]_vars

\* C31 as stated: the processing thread dispatching a hotkey and a control
\* thread in sync_hotkeys_for_profile, rebuild_hotkeys_from_metadata or
\* remove_hotkeys_for_profile never wait for each other: no set of threads is
\* ever such that each waits for a mutex another of them holds.
C31_NoDispatchDeadlock == ~Deadlocked

(***************************************************************************)
(* Hotkey dispatch against api::start_mapping.                             *)
(***************************************************************************)
\* The keys the hook sends in this check: the switch hotkey, down and up.
StartEvents ==
    {[vk_code |-> 112, event_type |-> "KeyDown", modifiers |-> 0],
     [vk_code |-> 112, event_type |-> "KeyUp", modifiers |-> 0]}

\* The buffer the loop polls in this check: one key, half pressed.
StartBuffers == {<<AnalogInput("W", Den \div 2)>>}

NextDispatchStart ==
    \/ \E raw \in StartEvents : HookProc(raw)
    \/ ProcessingStep
    \/ \E c \in Ctl :
          \/ ApiStartBegin(c)
          \/ ApiStartLockVigem(c)
          \/ ApiStartLockEngine(c)
          \/ ApiStartLockEngine2(c)
          \/ EngineStartJoin(c)
          \/ EngineStartCheck(c)
          \/ EngineStartHandles(c)
          \/ EngineStartProfile(c)
          \/ EngineStartSpawn(c)
    \/ \E t \in Threads : LoopStep(t, StartBuffers)

SpecDispatchStart == InitDispatch /\ [][NextDispatchStart]_vars

\* C32 as stated: a control thread in start_mapping and the processing thread
\* in a hotkey callback's update_systems_after_profile_switch are never among
\* threads that each wait for a mutex another of them holds.
C32_NoStartDeadlock ==
    \A c \in Ctl :
        ctl[c].op = "start" =>
            ~\E waiting \in SUBSET (Ctl \cup {"proc"}) :
                /\ {c, "proc"} \subseteq waiting
                /\ \A thread \in waiting : WaitsFor(thread) \in waiting

(***************************************************************************)
(* cleanup_internal (lib.rs) with the event subsystem running: the engine  *)
(* is stopped under MAPPING_ENGINE, then the event manager is taken out of *)
(* EVENT_INPUT_MANAGER and stopped while the guard is held.                *)
(***************************************************************************)
\* What the shutdown steps of a control thread leave alone.
shutdownFrame == <<atomic_state, writerVars, engineVars, loop, depVars, pm_current,
                   exited, sink, eventVars, manager, calc>>

\* keyboard_hook_proc, while the hook thread is in its message loop.
HookThreadProc(raw) ==
    /\ hook.hook_thread = "loop"
    /\ HookProc(raw)

\* Hook thread: GetMessageW returns 0 for the WM_QUIT posted; the hook is
\* removed and the context, with its sender, dropped.
HookThreadQuit ==
    /\ ~exited
    /\ hook.hook_thread = "loop"
    /\ hook.quit
    /\ hook' = [hook EXCEPT !.hook_thread = "done"]
    /\ UNCHANGED <<coreVars, manager, calc>>

\* Processing thread: recv() fails once the queue is empty and every sender
\* is gone; the thread ends.
ProcessingExit ==
    /\ ~exited
    /\ hook.pc = "recv"
    /\ event_queue = <<>>
    /\ hook.event_sender = "none"
    /\ hook.hook_thread = "done"
    /\ hook' = [hook EXCEPT !.pc = "done"]
    /\ UNCHANGED <<coreVars, manager, calc>>

\* cleanup_internal: stop_mapping returns, the engine guard is dropped.
CleanupEngineStopped(c) ==
    /\ ~exited
    /\ ctl[c].pc = "cl_join"
    /\ ctl[c].join # 0 => JoinDone(ctl[c].join)
    /\ lock' = ReleaseAll({"MAPPING_ENGINE"})
    /\ ctl' = [ctl EXCEPT ![c].pc = "cl_events", ![c].join = 0]
    /\ stopped' = TRUE
    /\ UNCHANGED <<hook, shutdownFrame>>

\* cleanup_internal: EVENT_INPUT_MANAGER.lock(), event_guard.take(), and
\* EventInputManager::stop up to its first join: is_running cleared, WM_QUIT
\* posted, the sender dropped.
CleanupLockEvents(c) ==
    /\ ~exited
    /\ ctl[c].pc = "cl_events"
    /\ lock["EVENT_INPUT_MANAGER"] = "free"
    /\ IF hook.event_input_manager = "some" /\ hook.is_running
       THEN /\ lock' = Acquire("EVENT_INPUT_MANAGER", c)
            /\ hook' = [hook EXCEPT !.event_input_manager = "none",
                                    !.is_running = FALSE, !.quit = TRUE,
                                    !.event_sender = "none"]
            /\ ctl' = [ctl EXCEPT ![c].pc = "cl_hook"]
       ELSE /\ hook' = [hook EXCEPT !.event_input_manager = "none"]
            /\ ctl' = [ctl EXCEPT ![c].pc = "cl_wooting"]
            /\ UNCHANGED lock
    /\ UNCHANGED <<stopped, shutdownFrame>>

\* EventInputManager::stop: the hook thread is joined.
CleanupJoinHook(c) ==
    /\ ~exited
    /\ ctl[c].pc = "cl_hook"
    /\ hook.hook_thread = "done"
    /\ ctl' = [ctl EXCEPT ![c].pc = "cl_processing"]
    /\ UNCHANGED <<lock, stopped, hook, shutdownFrame>>

\* EventInputManager::stop: the processing thread is joined, stop returns and
\* the block ends, which drops the EVENT_INPUT_MANAGER guard.
CleanupJoinProcessing(c) ==
    /\ ~exited
    /\ ctl[c].pc = "cl_processing"
    /\ hook.pc = "done"
    /\ lock' = ReleaseAll({"EVENT_INPUT_MANAGER"})
    /\ ctl' = [ctl EXCEPT ![c].pc = "cl_wooting"]
    /\ UNCHANGED <<stopped, hook, shutdownFrame>>

\* A step of cleanup_internal after its first.
CleanupContinue(c) ==
    \/ CleanupEngineStopped(c)
    \/ CleanupLockEvents(c)
    \/ CleanupJoinHook(c)
    \/ CleanupJoinProcessing(c)
    \/ CleanupWooting(c)
    \/ CleanupVigem(c)
    \/ ProcessExit(c)

NextShutdown ==
    \/ \E raw \in StartEvents : HookThreadProc(raw)
    \/ HookThreadQuit
    \/ ProcessingStep
    \/ ProcessingExit
    \/ \E c \in Ctl : CleanupBegin(c) \/ CleanupContinue(c)

\* Shutdown under fair scheduling: the hook thread, the processing thread and
\* a control thread inside cleanup_internal each take a step they can take
\* again and again.
SpecShutdown ==
    /\ InitDispatch
    /\ [][NextShutdown]_vars
    /\ SF_vars(HookThreadQuit)
    /\ SF_vars(ProcessingStep \/ ProcessingExit)
    /\ \A c \in Ctl : SF_vars(CleanupContinue(c))

\* cleanup_internal has returned with every thread it stops ended.
CleanupDone ==
    /\ ctl["tray"].pc = "cl_exit" \/ exited
    /\ \A t \in Threads : loop[t].pc = "dead"
    /\ hook.hook_thread = "done"
    /\ hook.pc = "done"

\* C33 as stated: under fair scheduling cleanup_internal, once begun, returns
\* with the mapping, hook and processing threads ended, whatever the
\* processing thread was doing when the shutdown began.
C33_CleanupReturns == (ctl["tray"].op = "cleanup") ~> CleanupDone

\* ProfileManager::switch_profile for the loaded profile returns Err exactly
\* when `compiled_sub_profiles.get(sub_profile_id)` finds nothing.
SwitchFails(sub_profile_id) == sub_profile_id \notin DOMAIN manager.compiled_sub_profiles

\* C35 as stated: a switch_profile call that returns an error leaves the
\* loaded profile, the compiled snapshots and the active sub-profile id as they
\* were before the call.
C35_FailedSwitchChangesNothing ==
    [][\A id \in 1..MaxSubProfiles :
          (SwitchSubProfile(id) /\ SwitchFails(id)) =>
              /\ manager'.loaded = manager.loaded
              /\ manager'.sub_profiles = manager.sub_profiles
              /\ manager'.compiled_sub_profiles = manager.compiled_sub_profiles
              /\ manager'.current_sub_profile_id = manager.current_sub_profile_id]_vars

\* C36 as stated: whenever a profile is loaded, every sub-profile of it has a
\* compiled snapshot, so a switch to any of them succeeds.
C36_EverySubProfileCompiled ==
    manager.loaded =>
        \A i \in DOMAIN manager.sub_profiles :
            manager.sub_profiles[i].id \in DOMAIN manager.compiled_sub_profiles

(***************************************************************************)
(* The control-plane calls of api/profiles.rs and the hotkey callbacks as  *)
(* whole calls: the ProfileManager method, then, where the caller has it,  *)
(* update_systems_after_profile_switch, which stores the manager's current *)
(* compiled profile in the engine or clears the engine's cache.            *)
(***************************************************************************)
\* Option<Arc<CompiledProfile>>.
NoCompiled == [is_some |-> FALSE, mappings |-> EmptyMap]
SomeCompiled(compiled) == [is_some |-> TRUE, mappings |-> compiled.mappings]

\* ProfileManager::get_current_compiled_profile.
get_current_compiled_profile(m) ==
    IF m.current_sub_profile_id \in DOMAIN m.compiled_sub_profiles
    THEN SomeCompiled(m.compiled_sub_profiles[m.current_sub_profile_id])
    ELSE NoCompiled

\* ProfileManager::switch_profile for the profile of the model: with it
\* loaded, the id is stored and then looked up; with nothing loaded its
\* metadata is gone and the call fails with ProfileNotFound.
AfterSwitch(m, sub_profile_id) ==
    IF m.loaded
    THEN [manager |-> [m EXCEPT !.current_sub_profile_id = sub_profile_id],
          ok |-> sub_profile_id \in DOMAIN m.compiled_sub_profiles]
    ELSE [manager |-> m, ok |-> FALSE]

\* ProfileManager::cycle_sub_profile: Err without sub-profiles, else
\* switch_profile to the one after the current one, the first when the
\* current one is not found.
AfterCycle(m) ==
    LET subs == m.sub_profiles
        index == FindById(subs, m.current_sub_profile_id)
        next == IF index = 0 THEN 1 ELSE (index % Len(subs)) + 1
    IN IF subs = <<>> THEN [manager |-> m, ok |-> FALSE]
       ELSE AfterSwitch(m, subs[next].id)

\* ProfileManager::set_current_mapping.
AfterSetMapping(m, mapping) ==
    LET id == m.current_sub_profile_id
        i == FindById(m.sub_profiles, id)
        SameKey(km) == km.key_name = mapping.key_name
        old == m.sub_profiles[i].mappings
        existing == FindFirst(old, SameKey)
        new == IF existing # 0 THEN [old EXCEPT ![existing] = mapping]
               ELSE Append(old, mapping)
        sub_profiles == WithMappings(m.sub_profiles, i, new)
    IN IF ~m.loaded \/ id = 0 \/ i = 0 THEN [manager |-> m, ok |-> FALSE]
       ELSE [manager |->
                [m EXCEPT
                   !.sub_profiles = sub_profiles,
                   !.compiled_sub_profiles =
                       Insert(@, id, compile_profile(sub_profiles, sub_profiles[i].name)),
                   !.latest[id][mapping.key_name] = mapping.gamepad_control],
             ok |-> TRUE]

\* ProfileManager::remove_current_mapping: Ok(removed).
AfterRemoveMapping(m, key_name) ==
    LET id == m.current_sub_profile_id
        i == FindById(m.sub_profiles, id)
        OtherKey(km) == km.key_name # key_name
        old == m.sub_profiles[i].mappings
        new == Retain(old, OtherKey)
        sub_profiles == WithMappings(m.sub_profiles, i, new)
    IN IF ~m.loaded \/ id = 0 \/ i = 0 \/ Len(new) = Len(old)
       THEN [manager |-> m, ok |-> FALSE]
       ELSE [manager |->
                [m EXCEPT
                   !.sub_profiles = sub_profiles,
                   !.compiled_sub_profiles =
                       Insert(@, id, compile_profile(sub_profiles, sub_profiles[i].name)),
                   !.latest[id][key_name] = "none"],
             ok |-> TRUE]

\* ProfileManager::add_sub_profile.
AfterAddSubProfile(m, name) ==
    LET id == m.next_id
        sub_profiles == Append(m.sub_profiles, SubProfile(id, name, <<>>))
    IN [m EXCEPT
          !.sub_profiles = sub_profiles,
          !.compiled_sub_profiles = Insert(@, id, compile_profile(sub_profiles, name)),
          !.next_id = id + 1,
          !.latest = Insert(@, id, NothingSet)]

\* ProfileManager::delete_profile of the loaded profile.
AfterDeleteProfile(m) ==
    [m EXCEPT !.loaded = FALSE, !.sub_profiles = <<>>,
              !.compiled_sub_profiles = EmptyMap, !.current_sub_profile_id = 0]

\* ProfileManager::delete_sub_profile in the loaded profile, with its outcome.
AfterDeleteSubProfile(m, sub_profile_id) ==
    LET OtherId(sp) == sp.id # sub_profile_id
        active == m.current_sub_profile_id = sub_profile_id
        sub_profiles == Retain(m.sub_profiles, OtherId)
        compiled == IF active THEN EmptyMap
                    ELSE Remove(m.compiled_sub_profiles, sub_profile_id)
    IN IF sub_profiles = <<>>
       THEN [manager |-> AfterDeleteProfile(m), outcome |-> "ProfileRemoved"]
       ELSE [manager |-> [m EXCEPT
                            !.sub_profiles = sub_profiles,
                            !.compiled_sub_profiles = compiled,
                            !.current_sub_profile_id = IF active THEN 0 ELSE @],
             outcome |-> "SubProfileRemoved"]

\* A call that has returned: the manager it leaves, the engine's cache it
\* leaves, and what it was.
ApiReturn(m, cached, op, ok) ==
    /\ manager.ops < MaxOps
    /\ manager' = [m EXCEPT !.ops = manager.ops + 1]
    /\ current_profile' = cached
    /\ calc' = [op |-> op, ok |-> ok]
    /\ UNCHANGED <<atomic_state, writerVars, mapping_active, mapping_thread, loop,
                   depVars, ctlVars, sink, eventVars, hook>>

\* api::switch_profile: on Err it returns before
\* update_systems_after_profile_switch.
ApiSwitchProfileCall(sub_profile_id) ==
    LET r == AfterSwitch(manager, sub_profile_id)
    IN /\ ~exited
       /\ ApiReturn(r.manager,
                    IF r.ok THEN get_current_compiled_profile(r.manager)
                    ELSE current_profile,
                    "switch_profile", r.ok)

\* switch_callback for the loaded profile: update_systems only on Ok.
HotkeySwitchCall(sub_profile_id) ==
    LET r == AfterSwitch(manager, sub_profile_id)
    IN /\ manager.loaded
       /\ ApiReturn(r.manager,
                    IF r.ok THEN get_current_compiled_profile(r.manager)
                    ELSE current_profile,
                    "switch_callback", r.ok)

\* cycle_callback for the loaded profile: update_systems only on Ok.
HotkeyCycleCall ==
    LET r == AfterCycle(manager)
    IN /\ manager.loaded
       /\ ApiReturn(r.manager,
                    IF r.ok THEN get_current_compiled_profile(r.manager)
                    ELSE current_profile,
                    "cycle_callback", r.ok)

\* api::set_mapping.
ApiSetMappingCall(mapping) ==
    LET r == AfterSetMapping(manager, mapping)
    IN /\ ~exited
       /\ ApiReturn(r.manager,
                    IF r.ok THEN get_current_compiled_profile(r.manager)
                    ELSE current_profile,
                    "set_mapping", r.ok)

\* api::remove_mapping: update_systems only `if removed`.
ApiRemoveMappingCall(key_name) ==
    LET r == AfterRemoveMapping(manager, key_name)
    IN /\ ~exited
       /\ ApiReturn(r.manager,
                    IF r.ok THEN get_current_compiled_profile(r.manager)
                    ELSE current_profile,
                    "remove_mapping", r.ok)

\* api::add_sub_profile: the manager call, then sync_hotkeys_for_profile.
ApiAddSubProfileCall(name) ==
    /\ manager.loaded
    /\ manager.next_id <= MaxSubProfiles
    /\ ApiReturn(AfterAddSubProfile(manager, name), current_profile,
                 "add_sub_profile", TRUE)

\* api::delete_sub_profile: SubProfileRemoved is followed by
\* sync_hotkeys_for_profile only, ProfileRemoved by remove_hotkeys_for_profile
\* and update_systems_after_profile_switch.
ApiDeleteSubProfileCall(sub_profile_id) ==
    LET r == AfterDeleteSubProfile(manager, sub_profile_id)
    IN /\ manager.loaded
       /\ FindById(manager.sub_profiles, sub_profile_id) # 0
       /\ ApiReturn(r.manager,
                    IF r.outcome = "ProfileRemoved"
                    THEN get_current_compiled_profile(r.manager)
                    ELSE current_profile,
                    "delete_sub_profile", TRUE)

\* api::delete_profile of the loaded profile: the manager call, then
\* remove_hotkeys_for_profile.
ApiDeleteProfileCall ==
    /\ manager.loaded
    /\ ApiReturn(AfterDeleteProfile(manager), current_profile, "delete_profile", TRUE)

\* The default profile active and cached by the engine.
InitApi ==
    /\ atomic_state = NewAtomicGamepadState
    /\ InitCommon
    /\ WOOTING_INIT_STATUS = "ok"
    /\ VIGEM_INIT_STATUS = "ok"
    /\ mapping_active = FALSE
    /\ mapping_thread = 0
    /\ current_profile = get_current_compiled_profile(LoadedManager)
    /\ loop = [t \in Threads |-> DeadLoop]
    /\ pm_current = "none"
    /\ stopped = FALSE
    /\ InitEventManager
    /\ manager = LoadedManager
    /\ hook = [pc |-> "idle"]
    /\ calc = [op |-> "none", ok |-> TRUE]

NextApi ==
    \/ \E id \in 1..MaxSubProfiles : ApiSwitchProfileCall(id)
    \/ \E id \in 1..MaxSubProfiles : HotkeySwitchCall(id)
    \/ HotkeyCycleCall
    \/ \E k \in MappedKeyNames, control \in MappedControls :
          ApiSetMappingCall(KeyMapping(k, control))
    \/ \E k \in MappedKeyNames : ApiRemoveMappingCall(k)
    \/ \E name \in SubProfileNames : ApiAddSubProfileCall(name)
    \/ \E id \in 1..MaxSubProfiles : ApiDeleteSubProfileCall(id)
    \/ ApiDeleteProfileCall

SpecApi == InitApi /\ [][NextApi]_vars

\* C34 as stated: after each control-plane call has returned, with Ok or Err,
\* the engine's cached profile has the mappings of the manager's current
\* compiled profile, and is cleared when the manager has none.
C34_EngineCacheMatchesManager == current_profile = get_current_compiled_profile(manager)

(***************************************************************************)
(* api::switch_profile on a control thread against the processing thread.  *)
(***************************************************************************)
\* The key the hook sends in this check: E, bound to ButtonA in Combat and
\* to a stick in Movement.
SwitchEvents ==
    {[vk_code |-> 69, event_type |-> "KeyDown", modifiers |-> 0],
     [vk_code |-> 69, event_type |-> "KeyUp", modifiers |-> 0]}

NextDispatchSwitch ==
    \/ \E raw \in SwitchEvents : HookProc(raw)
    \/ ProcessingRecv
    \/ ProcessingHotkeys
    \/ ProcessingButtons
    \/ \E c \in Ctl :
          \/ \E p \in {"Movement", "Combat"} : ApiSwitchProfile(c, p)
          \/ UpdateReset(c)
          \/ UpdateLockManager(c)
          \/ UpdateCallbacks(c)
          \/ UpdateStore(c)

SpecDispatchSwitch == InitDispatch /\ [][NextDispatchSwitch]_vars

\* Some api::switch_profile has returned, none is in progress, the queue is
\* drained and the processing thread waits for the next event.
SwitchSettled ==
    /\ \A c \in Ctl : ctl[c].pc = "idle"
    /\ \E c \in Ctl : ctl[c].op = "switch"
    /\ event_queue = <<>>
    /\ hook.pc = "recv"

\* The buttons set in the bitmask.
ButtonsSet == {b \in {XboxButton[n] : n \in DOMAIN XboxButton} : HasBit(atomic_state.buttons, b)}

\* C37 as stated, in the part the handled events decide: once the switch has
\* returned and the queue is drained, every set bit of the bitmask is the
\* button that the new active sub-profile binds to a key whose press the
\* processing thread has handled.
C37_NoStaleButtonAfterSwitch ==
    SwitchSettled =>
        \A b \in ButtonsSet :
            \E i \in DOMAIN handled :
                LET vk_code == handled[i].key_input.vk_code
                    callbacks == update_button_callbacks(Profiles[pm_current])
                IN /\ handled[i].process_event
                   /\ IsPressed(handled[i].key_input)
                   /\ vk_code \in DOMAIN callbacks
                   /\ callbacks[vk_code] = b

(***************************************************************************)
(* Hotkey presses with no control-plane call in progress.                  *)
(***************************************************************************)
NextHotkeyPress ==
    \/ \E raw \in DispatchEvents : HookProc(raw)
    \/ ProcessingStep

SpecHotkeyPress == InitDispatch /\ [][NextHotkeyPress]_vars

\* The callback about to run belongs to a profile that is not the loaded one.
ForeignTarget ==
    /\ hook.pc = "callback"
    /\ hook.invoked[hook.next].profile_id # get_current_profile_id(pm_current)

\* C38: the callback of a switch or cycle hotkey registered for a profile that
\* is not the loaded one changes nothing: the manager's state, the engine's
\* cached profile, the button bitmask and the button callbacks stay as they are,
\* update_systems_after_profile_switch is not entered and no notification is sent.
C38_ForeignHotkeyNoEffect ==
    [][(ForeignTarget /\ HotkeyCallback) =>
          /\ pm_current' = pm_current
          /\ manager' = manager
          /\ current_profile' = current_profile
          /\ atomic_state' = atomic_state
          /\ event_manager'.button_callbacks = event_manager.button_callbacks
          /\ hook'.notifications = hook.notifications
          /\ hook'.pc \in {"callback", "buttons"}]_vars

\* C38 witness: Ctrl+F1, registered for the Other profile, has been pressed
\* with the Game profile loaded, and its callback has returned.
C38_Witness ==
    /\ hook.pc = "buttons"
    /\ hook.invoked # <<>>
    /\ \A i \in DOMAIN hook.invoked : hook.invoked[i].profile_id = "Other"
    /\ pm_current # "none"

(***************************************************************************)
(* ProfileManager::cycle_sub_profile as a function of the sub-profile      *)
(* metadata of the loaded profile and the active sub-profile id.           *)
(***************************************************************************)
\* Creation timestamps run from 1 to MaxCreatedAt; two sub-profiles can share one.
MaxCreatedAt == 2

\* The comparison with the timestamps left out.
MetaLessById(a, b) == a.id < b.id

\* `a.created_at.cmp(&b.created_at).then_with(|| a.id.cmp(&b.id))` is Less.
MetaLess(a, b) == a.created_at < b.created_at \/ (a.created_at = b.created_at /\ a.id < b.id)

\* sub_metas.sort_by(..): the metadata in ascending order.
RECURSIVE SortMetas(_)
SortMetas(sub_metas) ==
    IF sub_metas = {} THEN <<>>
    ELSE LET first == CHOOSE m \in sub_metas :
                         \A other \in sub_metas \ {m} : MetaLess(m, other)
         IN <<first>> \o SortMetas(sub_metas \ {first})

\* cycle_sub_profile on the loaded profile: the id switch_profile is called
\* with, i.e. the one after the current id in the sorted metadata, the first
\* when no sub-profile is current or the current id is not in the metadata.
NextMeta(sub_metas, current_is_profile, current_sub_profile_id) ==
    LET sorted == SortMetas(sub_metas)
        HasId(meta) == meta.id = current_sub_profile_id
        index == FindFirst(sorted, HasId)
    IN IF ~current_is_profile \/ index = 0 THEN sorted[1].id
       ELSE sorted[(index % Len(sorted)) + 1].id

\* The metadata drawn: any non-empty set of sub-profiles, any timestamps.
SubMetaSets ==
    {sub_metas \in SUBSET [id : 1..MaxSubProfiles, created_at : 1..MaxCreatedAt] :
        /\ sub_metas # {}
        /\ \A a, b \in sub_metas : a.id = b.id => a = b}

InitCycle ==
    /\ InitCore
    /\ manager = [current_profile |-> "none"]
    /\ hook = [pc |-> "idle"]
    /\ \E sub_metas \in SubMetaSets :
       \E current \in {0} \cup {meta.id : meta \in sub_metas}, loaded \in BOOLEAN :
          calc = [op |-> "cycle", sub_metas |-> sub_metas,
                  loaded |-> loaded, current_is_profile |-> loaded,
                  start |-> IF loaded THEN current ELSE 0,
                  current_sub_profile_id |-> IF loaded THEN current ELSE 0,
                  visited |-> <<>>]

\* One cycle_sub_profile call: switch_profile loads the profile when another
\* or none was loaded, and stores the next id.
CycleCall ==
    /\ calc.op = "cycle"
    /\ Len(calc.visited) < Cardinality(calc.sub_metas)
    /\ LET next == NextMeta(calc.sub_metas, calc.current_is_profile,
                             calc.current_sub_profile_id)
       IN calc' = [calc EXCEPT !.current_is_profile = TRUE,
                               !.current_sub_profile_id = next,
                               !.visited = Append(@, next)]
    /\ UNCHANGED <<coreVars, manager, hook>>

NextCycle == CycleCall

SpecCycle == InitCycle /\ [][NextCycle]_vars

\* The sub-profile of the id.
MetaOf(id) == CHOOSE meta \in calc.sub_metas : meta.id = id

\* b comes after a in ascending (created_at, id) order.
After(a, b) ==
    \/ a.created_at < b.created_at
    \/ (a.created_at = b.created_at /\ a.id < b.id)

\* The id that follows `id` in ascending (created_at, id) order: the least
\* sub-profile after it, or, from the last, the least of all.
Successor(id) ==
    LET later == {meta \in calc.sub_metas : After(MetaOf(id), meta)}
        from == IF later = {} THEN calc.sub_metas ELSE later
    IN (CHOOSE meta \in from : \A other \in from \ {meta} : After(meta, other)).id

\* C39: from an active sub-profile of the loaded profile, every cycle makes
\* the next sub-profile in ascending (created_at, id) order active, wrapping
\* from the last to the first; after n cycles over n sub-profiles each has
\* been visited exactly once and the starting one is active again.
C39_CycleVisitsAllInOrder ==
    (calc.op = "cycle" /\ calc.loaded /\ calc.start # 0) =>
        /\ \A k \in DOMAIN calc.visited :
              calc.visited[k] =
                  Successor(IF k = 1 THEN calc.start ELSE calc.visited[k - 1])
        /\ Len(calc.visited) = Cardinality(calc.sub_metas) =>
              /\ {calc.visited[k] : k \in DOMAIN calc.visited}
                    = {meta.id : meta \in calc.sub_metas}
              /\ calc.current_sub_profile_id = calc.start

\* C39 witness: three sub-profiles whose timestamps do not follow their ids,
\* cycled three times from the one with the latest timestamp.
C39_Witness ==
    /\ calc.op = "cycle"
    /\ calc.loaded
    /\ Cardinality(calc.sub_metas) = 3
    /\ Len(calc.visited) = 3
    /\ calc.start = 1
    /\ MetaOf(1).created_at = 2
    /\ MetaOf(2).created_at = 1

(***************************************************************************)
(* The hotkey registry kept in step with the profile metadata: every api   *)
(* call that changes the metadata (api/profiles.rs) ends in                *)
(* sync_hotkeys_for_profile or remove_hotkeys_for_profile, and the three   *)
(* public functions of hotkey_manager.rs can be called on any profile id.  *)
(***************************************************************************)
\* Profile ids, and the sub-profile ids of each: a sub-profile is named
\* together with its own profile, as the ids the application hands out are.
RegistryProfiles == {GameProfile, "Other"}
RegistrySubProfiles == {"Movement", "Combat"}

\* The hotkey texts a caller passes, split at '+': empty, a key, and the key
\* with a modifier in lower case.
HotkeyTexts == {<<"">>, <<"F1">>, <<"ctrl", "F1">>}

\* api/profiles.rs optional_slice then `hotkey.and_then(metadata_hotkey_to_struct)`
\* then `.map(hotkey_to_metadata_string)`: the text the metadata stores.
MetadataHotkey(text) ==
    LET parsed == IF text = <<"">> THEN NoHotKey ELSE metadata_hotkey_to_struct(text)
    IN IF parsed.is_some
       THEN SomeText(hotkey_to_metadata_string(HotKey(parsed.key_name, parsed.modifiers)))
       ELSE NoText

\* seq with elem put at position pos: a HashMap's values come in any order.
InsertAt(seq, pos, elem) == SubSeq(seq, 1, pos - 1) \o <<elem>> \o SubSeq(seq, pos, Len(seq))

\* The metadata without the profile.
WithoutProfile(metadata, profile_id) ==
    LET Other(profile_meta) == profile_meta.id # profile_id IN Retain(metadata, Other)

\* The index of the profile in the metadata, 0 when it has none.
MetaIndex(metadata, profile_id) ==
    LET HasId(profile_meta) == profile_meta.id = profile_id IN FindFirst(metadata, HasId)

\* What the registry steps leave alone.
registryFrame == <<atomic_state, writerVars, engineVars, loop, depVars, ctlVars, sink, event_queue, hook_log, handled, hook>>

\* The registry and metadata after an api call: the metadata as the manager
\* left it, the registry as the call's hotkey function left it.
RegistryReturn(metadata, mappings, removed) ==
    /\ manager' = [metadata |-> metadata]
    /\ event_manager' = [event_manager EXCEPT !.hotkey_mappings = mappings]
    /\ calc' = [op |-> "registry", removed |-> removed]
    /\ UNCHANGED registryFrame

\* api create_profile: a profile with the default sub-profile and no hotkey.
CreateProfile(profile_id) ==
    /\ MetaIndex(manager.metadata, profile_id) = 0
    /\ \E pos \in 1..(Len(manager.metadata) + 1) :
         LET created == ProfileMeta(profile_id, NoText, <<SubMeta("Movement", NoText)>>)
             metadata == InsertAt(manager.metadata, pos, created)
         IN RegistryReturn(metadata,
                sync_hotkeys_for_profile(event_manager.hotkey_mappings, metadata, profile_id), calc.removed \ {profile_id})

\* api update_profile_hotkey: set_profile_hotkey, then sync_hotkeys_for_profile.
UpdateProfileHotkey(profile_id, text) ==
    LET index == MetaIndex(manager.metadata, profile_id)
        metadata == [manager.metadata EXCEPT ![index].hotkey = MetadataHotkey(text)]
    IN /\ index # 0
       /\ RegistryReturn(metadata,
              sync_hotkeys_for_profile(event_manager.hotkey_mappings, metadata, profile_id), calc.removed)

\* api update_sub_profile_hotkey: set_sub_profile_hotkey, then
\* sync_hotkeys_for_profile.
UpdateSubProfileHotkey(profile_id, sub_profile_id, text) ==
    LET index == MetaIndex(manager.metadata, profile_id)
    IN /\ index # 0
       /\ \E i \in 1..Len(manager.metadata[index].sub_metas) :
            /\ manager.metadata[index].sub_metas[i].id = sub_profile_id
            /\ LET metadata == [manager.metadata EXCEPT
                                   ![index].sub_metas[i].hotkey = MetadataHotkey(text)]
               IN RegistryReturn(metadata,
                      sync_hotkeys_for_profile(event_manager.hotkey_mappings, metadata,
                                               profile_id), calc.removed)

\* api add_sub_profile: add_sub_profile, then sync_hotkeys_for_profile.
AddSubProfileHotkey(profile_id, sub_profile_id, text) ==
    LET index == MetaIndex(manager.metadata, profile_id)
    IN /\ index # 0
       /\ \A i \in 1..Len(manager.metadata[index].sub_metas) :
             manager.metadata[index].sub_metas[i].id # sub_profile_id
       /\ \E pos \in 1..(Len(manager.metadata[index].sub_metas) + 1) :
            LET added == SubMeta(sub_profile_id, MetadataHotkey(text))
                metadata == [manager.metadata EXCEPT
                                ![index].sub_metas = InsertAt(@, pos, added)]
            IN RegistryReturn(metadata,
                   sync_hotkeys_for_profile(event_manager.hotkey_mappings, metadata,
                                            profile_id), calc.removed)

\* api delete_sub_profile: SubProfileRemoved ends in sync_hotkeys_for_profile;
\* ProfileRemoved, the profile's last sub-profile, deletes the profile and
\* ends in remove_hotkeys_for_profile.
DeleteSubProfileHotkey(profile_id, sub_profile_id) ==
    LET index == MetaIndex(manager.metadata, profile_id)
        Other(sub_meta) == sub_meta.id # sub_profile_id
    IN /\ index # 0
       /\ \E i \in 1..Len(manager.metadata[index].sub_metas) :
             manager.metadata[index].sub_metas[i].id = sub_profile_id
       /\ LET kept == Retain(manager.metadata[index].sub_metas, Other)
          IN IF kept = <<>>
             THEN LET metadata == WithoutProfile(manager.metadata, profile_id)
                  IN RegistryReturn(metadata,
                         remove_hotkeys_for_profile(event_manager.hotkey_mappings,
                                                    metadata, profile_id), calc.removed \cup {profile_id})
             ELSE LET metadata == [manager.metadata EXCEPT ![index].sub_metas = kept]
                  IN RegistryReturn(metadata,
                         sync_hotkeys_for_profile(event_manager.hotkey_mappings,
                                                  metadata, profile_id), calc.removed)

\* api delete_profile: delete_profile, then remove_hotkeys_for_profile.
DeleteProfileHotkeys(profile_id) ==
    /\ MetaIndex(manager.metadata, profile_id) # 0
    /\ LET metadata == WithoutProfile(manager.metadata, profile_id)
       IN RegistryReturn(metadata,
              remove_hotkeys_for_profile(event_manager.hotkey_mappings, metadata,
                                         profile_id), calc.removed \cup {profile_id})

\* The three functions called on their own, on any profile id.
RebuildHotkeys ==
    /\ calc.op = "registry"
    /\ RegistryReturn(manager.metadata, rebuild_hotkeys_from_metadata(manager.metadata), calc.removed)

SyncHotkeys(profile_id) ==
    /\ calc.op = "registry"
    /\ RegistryReturn(manager.metadata,
           sync_hotkeys_for_profile(event_manager.hotkey_mappings, manager.metadata,
                                    profile_id), calc.removed)

RemoveHotkeys(profile_id) ==
    /\ calc.op = "registry"
    /\ RegistryReturn(manager.metadata,
           remove_hotkeys_for_profile(event_manager.hotkey_mappings, manager.metadata,
                                      profile_id), calc.removed)

\* The metadata of a first start: the default profile, created as
\* create_profile creates one.
StartupMetadata == <<ProfileMeta(GameProfile, NoText, <<SubMeta("Movement", NoText)>>)>>

\* After initialize_internal: the registry registered from the metadata.
InitRegistry ==
    /\ atomic_state = NewAtomicGamepadState
    /\ InitCommon
    /\ WOOTING_INIT_STATUS = "ok"
    /\ VIGEM_INIT_STATUS = "ok"
    /\ mapping_active = FALSE
    /\ mapping_thread = 0
    /\ current_profile = "none"
    /\ loop = [t \in Threads |-> DeadLoop]
    /\ pm_current = "none"
    /\ stopped = FALSE
    /\ event_queue = <<>>
    /\ event_manager = [NewEventInputManager("none") EXCEPT
                          !.hotkey_mappings = register_from_metadata(StartupMetadata)]
    /\ hook_log = <<>>
    /\ handled = <<>>
    /\ manager = [metadata |-> StartupMetadata]
    /\ hook = [pc |-> "idle"]
    /\ calc = [op |-> "registry", removed |-> {}]

NextRegistry ==
    \/ \E p \in RegistryProfiles : CreateProfile(p)
    \/ \E p \in RegistryProfiles, text \in HotkeyTexts : UpdateProfileHotkey(p, text)
    \/ \E p \in RegistryProfiles, s \in RegistrySubProfiles, text \in HotkeyTexts :
          UpdateSubProfileHotkey(p, s, text)
    \/ \E p \in RegistryProfiles, s \in RegistrySubProfiles, text \in HotkeyTexts :
          AddSubProfileHotkey(p, s, text)
    \/ \E p \in RegistryProfiles, s \in RegistrySubProfiles : DeleteSubProfileHotkey(p, s)
    \/ \E p \in RegistryProfiles : DeleteProfileHotkeys(p)
    \/ RebuildHotkeys
    \/ \E p \in RegistryProfiles : SyncHotkeys(p)
    \/ \E p \in RegistryProfiles : RemoveHotkeys(p)

SpecRegistry == InitRegistry /\ [][NextRegistry]_vars

\* How many targets of the list are the target.
TargetCount(targets, target) ==
    Cardinality({i \in 1..Len(targets) : SameTarget(targets[i], target)})

\* The hotkey of a metadata text, NoHotKey when it has none.
DefinedHotkey(hotkey) ==
    IF hotkey.is_some THEN metadata_hotkey_to_struct(hotkey.text) ELSE NoHotKey

\* The target is registered exactly once under the hotkey of the text, if
\* the text defines a hotkey.
RegisteredOnce(mappings, hotkey, target) ==
    LET parsed == DefinedHotkey(hotkey)
        key == HotKey(parsed.key_name, parsed.modifiers)
    IN parsed.is_some => (key \in DOMAIN mappings /\ TargetCount(mappings[key], target) = 1)

\* The key presses that can reach process_hotkeys: a key, with Ctrl or not.
Presses ==
    {[vk_code |-> vk, event_type |-> "KeyDown", modifiers |-> m] : vk \in {112}, m \in {0, 1}}

\* C40: after rebuild_hotkeys_from_metadata, sync_hotkeys_for_profile and
\* remove_hotkeys_for_profile in any order, every switch and cycle hotkey
\* of the metadata is registered exactly once, no target of a removed
\* profile is left, no hotkey has an empty target list, and a press runs
\* every target registered for it exactly once.
C40_RegistryMatchesMetadata ==
    LET mappings == event_manager.hotkey_mappings
        metadata == manager.metadata
    IN calc.op = "registry" =>
        /\ \A index \in 1..Len(metadata) :
              LET profile_meta == metadata[index]
              IN /\ RegisteredOnce(mappings, profile_meta.hotkey, CycleTarget(profile_meta.id))
                 /\ \A i \in 1..Len(profile_meta.sub_metas) :
                       RegisteredOnce(mappings, profile_meta.sub_metas[i].hotkey,
                           SwitchTarget(profile_meta.id, profile_meta.sub_metas[i].id))
        /\ \A h \in DOMAIN mappings :
              /\ mappings[h] # <<>>
              /\ \A i \in 1..Len(mappings[h]) : mappings[h][i].profile_id \notin calc.removed
        /\ \A key_input \in Presses :
              \A invoked \in process_hotkeys(mappings, 0, key_input) :
                 \A h \in DOMAIN mappings :
                    HotkeyMatches(h, key_input) =>
                       \A i \in 1..Len(mappings[h]) :
                          TargetCount(invoked, mappings[h][i]) = 1

\* C40 witness: Other has been created and removed, and Ctrl+F1 both cycles
\* Game and switches to two of its sub-profiles.
C40_Witness ==
    /\ calc.op = "registry"
    /\ calc.removed = {"Other"}
    /\ HotKey("F1", 1) \in DOMAIN event_manager.hotkey_mappings
    /\ Len(event_manager.hotkey_mappings[HotKey("F1", 1)]) = 3

====
